---- MODULE Spec2Model ----
(***************************************************************************)
(* A model of the flow engine of mainframe_copilot                          *)
(* (src/herc_step8/tools/flow_runner.py, FlowRunner) and of the parameter   *)
(* redaction of the JSONL logger (src/herc_step8/ai/observability.py).      *)
(*                                                                         *)
(* Python dicts are functions whose DOMAIN is the set of keys present.      *)
(* Strings that the code only compares, formats or searches as a whole are  *)
(* tokens; a formatted transcript line is the tuple of its parts.           *)
(* Wall-clock timestamps of transcript entries are left out: no code reads  *)
(* them back.  File writes are taken to succeed.                            *)
(***************************************************************************)
EXTENDS Integers, Sequences, FiniteSets, TLC

(* ---------------- bounds of the model ---------------- *)

\* longest step list of the root flow
MaxSteps == 2
\* most poll iterations a wait_ready / wait_change loop makes before its
\* timeout budget is taken to have elapsed
MaxPolls == 2
\* most direct execute_step calls in the step-level specification
MaxCalls == 2

(* ---------------- python helpers ---------------- *)

None == "None"
REDACTED == "***REDACTED***"
EmptyDict == [k \in {} |-> None]

\* dict.get(key, default)
Get(d, k, default) == IF k \in DOMAIN d THEN d[k] ELSE default

(* ---------------- the terminal as the bridge shows it ---------------- *)

\* The words a screen text holds; `needle in ascii_text` is membership.
AsciiWords(ascii) ==
    CASE ascii = "LOGON"      -> {"LOGON"}
      [] ascii = "READY"      -> {"READY"}
      [] ascii = "LOGON  ERR" -> {"LOGON", "ERR"}
      [] OTHER                -> {}

AsciiContains(ascii, needle) == needle \in AsciiWords(ascii)

\* screen_fingerprint.compute_digest: sha256 of the normalized text, one
\* digest per normalized text.
compute_digest(ascii) ==
    CASE ascii = "LOGON"      -> "sha:LOGON"
      [] ascii = "READY"      -> "sha:READY"
      [] ascii = "LOGON  ERR" -> "sha:LOGON  ERR"
      [] OTHER                -> "sha:"

\* The answers of GET /screen: a text and the digest the bridge gives it.
Snapshots ==
    { [ascii |-> "LOGON", digest |-> "sha:LOGON"],
      [ascii |-> "READY", digest |-> "sha:READY"] }

\* current_digest[:16]
Trunc16(d) == <<"[:16]", d>>

(* ---------------- transcript ---------------- *)

\* log_transcript: the entry appended for (action, result, secret) while
\* current_digest is cur.
LogEntry(action, result, secret, cur) ==
    [ action |-> action,
      result |-> IF secret /\ result # <<>> THEN <<REDACTED>> ELSE result,
      digest |-> IF cur # None THEN Trunc16(cur) ELSE <<None>> ]

\* save_transcript: one line per entry, the result and the digest only when
\* they are set.
TranscriptLine(e) ==
    <<e.action>>
    \o (IF e.result # <<>> THEN <<e.result>> ELSE <<>>)
    \o (IF e.digest # <<None>> THEN <<e.digest>> ELSE <<>>)

save_transcript(tr) == [k \in 1..Len(tr) |-> TranscriptLine(tr[k])]

(* ---------------- steps ---------------- *)

\* A step is a single-key mapping {step_type: value}; the value is a mapping
\* (isdict) or a bare integer n.
DictStep(t, d) == [type |-> t, isdict |-> TRUE, d |-> d, n |-> ""]
IntStep(t, n) == [type |-> t, isdict |-> FALSE, d |-> EmptyDict, n |-> n]
NoStep == DictStep("none", EmptyDict)

\* params = step[step_type] if isinstance(step[step_type], dict) else {}
StepParams(step) == IF step.isdict THEN step.d ELSE EmptyDict

\* What a method of the runner hands back: res is "True", "False" or
\* "raise" (with the exception's message msg); logs are the transcript
\* entries it appended, cur the current_digest it leaves, goldens the golden
\* store, fails the failure screens it wrote, driver the requests it sent.
Ret(res, msg, logs, c, G, fails, driver) ==
    [ res |-> res, msg |-> msg, logs |-> logs, cur |-> c, goldens |-> G,
      fails |-> fails, driver |-> driver ]

\* The three ends of a POST to the bridge: 200, another status, an exception
\* of the requests library (connection refused, timeout).
PostResults == {"True", "False", "raise"}
PostMsg(r) == IF r = "raise" THEN "ConnectionError" ELSE ""

\* get_screen: raises, or returns a snapshot and sets current_digest.
GetScreenResults == Snapshots \cup {[ascii |-> "", digest |-> "raise"]}
Raised(s) == s.digest = "raise"

\* press
press(aid, c, G) ==
    LET e == LogEntry(<<"press", aid>>, <<>>, FALSE, c)
    IN  { Ret(r, PostMsg(r), <<e>>, c, G, <<>>, << <<"POST /press", aid>> >>)
          : r \in PostResults }

\* (mutant) the value is shown whatever secret says
DisplayValueLeak(value, secret) == value

\* display_value = "***REDACTED***" if secret else value
DisplayValue(value, secret) == IF secret THEN REDACTED ELSE value

\* fill_at
fill_at(row, col, value, secret, c, G) ==
    LET e == LogEntry(<<"fill_at", row, col, DisplayValue(value, secret)>>,
                      <<>>, secret, c)
    IN  { Ret(r, PostMsg(r), <<e>>, c, G, <<>>,
              << <<"POST /fill", row, col, value>> >>)
          : r \in PostResults }

\* fill_by_label
fill_by_label(label, offset, value, secret, c, G) ==
    LET e == LogEntry(<<"fill_by_label", label, offset,
                        DisplayValue(value, secret)>>, <<>>, secret, c)
    IN  { Ret(r, PostMsg(r), <<e>>, c, G, <<>>,
              << <<"POST /fill_by_label", label, offset, value>> >>)
          : r \in PostResults }

\* Get value from environment or direct
ResolveValue(p, env) ==
    IF "value_env" \in DOMAIN p THEN Get(env, p["value_env"], "")
    ELSE Get(p, "value", "")

\* (mutant) a missing parameter is passed over and the step succeeds
MissingIgnored(k, c, G) == { Ret("True", "", <<>>, c, G, <<>>, <<>>) }

\* params[k] with k absent: KeyError(k) is raised
KeyError(k, c, G) == { Ret("raise", k, <<>>, c, G, <<>>, <<>>) }

\* (mutant) an unknown step kind is an error
UnknownStepFails(t, c, G) == { Ret("raise", t, <<>>, c, G, <<>>, <<>>) }

\* else: log "unknown step: <step_type>" as SKIPPED, return True
unknown_step(t, c, G) ==
    { Ret("True", "",
          <<LogEntry(<<"unknown step", t>>, <<"SKIPPED">>, FALSE, c)>>,
          c, G, <<>>, <<>>) }

\* (mutant) the failing screen is not written
NoFailureScreen(flow_name, screen_text) == <<>>

\* save_failure_screen: the dump file written, named after flow_name
save_failure_screen(flow_name, screen_text) ==
    << [flow_name |-> flow_name, text |-> screen_text] >>

\* len(ascii.replace(' ', '').replace('\n', ''))
CharCount(ascii) ==
    CASE ascii = "LOGON"      -> 5
      [] ascii = "READY"      -> 5
      [] ascii = "LOGON  ERR" -> 8
      [] OTHER                -> 0

\* The patterns of the model that re.search finds in a screen text.
RegexHits(ascii) ==
    CASE ascii = "LOGON"      -> {"^LOGON", "O+"}
      [] ascii = "READY"      -> {"R.A"}
      [] ascii = "LOGON  ERR" -> {"^LOGON", "O+", "ERR$"}
      [] OTHER                -> {}

\* re.search(pattern, ascii_text)
RegexSearch(pattern, ascii) == pattern \in RegexHits(ascii)

ContainsDesc(rule) == <<"ascii_contains", rule["ascii_contains"]>>
RegexDesc(rule) == <<"ascii_regex", rule["ascii_regex"]>>

ContainsHit(rule, ascii) ==
    /\ "ascii_contains" \in DOMAIN rule
    /\ AsciiContains(ascii, rule["ascii_contains"])

RegexHit(rule, ascii) ==
    /\ "ascii_regex" \in DOMAIN rule
    /\ RegexSearch(rule["ascii_regex"], ascii)

\* the description returned for the first predicate of rule that matches,
\* the empty tuple if none does
FirstHit(rule, ascii) ==
    IF ContainsHit(rule, ascii) THEN ContainsDesc(rule)
    ELSE IF RegexHit(rule, ascii) THEN RegexDesc(rule)
    ELSE <<>>

\* (mutant) the last sub-rule with a matching predicate wins
AnyHitLast(rules, ascii) ==
    LET hit == { k \in 1..Len(rules) : FirstHit(rules[k], ascii) # <<>> }
    IN IF hit = {} THEN <<>>
       ELSE FirstHit(rules[CHOOSE k \in hit : \A m \in hit : k >= m], ascii)

\* an 'any' list: the first sub-rule with a matching predicate wins
AnyHit(rules, ascii) ==
    LET hit == { k \in 1..Len(rules) : FirstHit(rules[k], ascii) # <<>> }
    IN IF hit = {} THEN <<>>
       ELSE FirstHit(rules[CHOOSE k \in hit : \A m \in hit : k <= m], ascii)

\* matched_rules of an 'all' list: the descriptions of every matching
\* predicate of every sub-rule, in order
RECURSIVE MatchedRules(_, _)
MatchedRules(rules, ascii) ==
    IF rules = <<>> THEN <<>>
    ELSE (IF ContainsHit(Head(rules), ascii)
          THEN <<ContainsDesc(Head(rules))>> ELSE <<>>)
         \o (IF RegexHit(Head(rules), ascii)
             THEN <<RegexDesc(Head(rules))>> ELSE <<>>)
         \o MatchedRules(Tail(rules), ascii)

\* " AND ".join(matched_rules)
RECURSIVE JoinAnd(_)
JoinAnd(descs) ==
    IF descs = <<>> THEN <<>>
    ELSE IF Len(descs) = 1 THEN Head(descs)
    ELSE Head(descs) \o <<"AND">> \o JoinAnd(Tail(descs))

\* (mutant) an 'all' list matches when no sub-rule fails, an empty list too
AllMatchedVacuous(rules, ascii) ==
    \A k \in 1..Len(rules) : FirstHit(rules[k], ascii) # <<>>

\* all_matched and matched_rules
AllMatched(rules, ascii) ==
    /\ \A k \in 1..Len(rules) : FirstHit(rules[k], ascii) # <<>>
    /\ MatchedRules(rules, ascii) # <<>>

\* (mutant) only the column count is compared
DimsOkColsOnly(snapshot, screen_id) ==
    ~ /\ "match" \in DOMAIN screen_id
      /\ "cols" \in DOMAIN screen_id["match"]
      /\ Get(snapshot, "cols", 0) # screen_id["match"]["cols"]

\* The dimension checks: snapshot.get('cols') / .get('rows') against the
\* rule's match.cols / match.rows; an absent dimension (None, here 0) differs
\* from every constraint.
DimsOk(snapshot, screen_id) ==
    ~ /\ "match" \in DOMAIN screen_id
      /\ \/ /\ "cols" \in DOMAIN screen_id["match"]
            /\ Get(snapshot, "cols", 0) # screen_id["match"]["cols"]
         \/ /\ "rows" \in DOMAIN screen_id["match"]
            /\ Get(snapshot, "rows", 0) # screen_id["match"]["rows"]

\* The stability check: stability.min_chars against the count of the
\* characters that are neither a space nor a newline.
StabilityOk(snapshot, screen_id) ==
    ~ /\ "stability" \in DOMAIN screen_id
      /\ "min_chars" \in DOMAIN screen_id["stability"]
      /\ CharCount(Get(snapshot, "ascii", "")) < screen_id["stability"]["min_chars"]

NoMatch == [matched |-> FALSE, rule |-> <<None>>]
Matched(desc) == [matched |-> TRUE, rule |-> desc]

\* match_screen: (matched, rule_that_matched)
match_screen(snapshot, screen_id) ==
    LET ascii == Get(snapshot, "ascii", "")
        m     == Get(screen_id, "match", EmptyDict)
    IN
    IF ~DimsOk(snapshot, screen_id) THEN NoMatch
    ELSE IF ~StabilityOk(snapshot, screen_id) THEN NoMatch
    ELSE IF ContainsHit(screen_id, ascii) THEN Matched(ContainsDesc(screen_id))
    ELSE IF RegexHit(screen_id, ascii) THEN Matched(RegexDesc(screen_id))
    ELSE IF "any" \in DOMAIN m /\ AnyHit(m["any"], ascii) # <<>>
         THEN Matched(AnyHit(m["any"], ascii))
    ELSE IF "all" \in DOMAIN m /\ AllMatched(m["all"], ascii)
         THEN Matched(JoinAnd(MatchedRules(m["all"], ascii)))
    ELSE IF "any" \in DOMAIN screen_id /\ AnyHit(screen_id["any"], ascii) # <<>>
         THEN Matched(AnyHit(screen_id["any"], ascii))
    ELSE NoMatch

\* save_golden: the text and the snapshot's digest, overwriting
save_golden(name, snapshot, G) ==
    [n \in DOMAIN G \cup {name} |->
        IF n = name THEN [ascii |-> snapshot.ascii, digest |-> snapshot.digest]
        ELSE G[n]]

\* assert_golden: a stored golden whose digest is compute_digest of the text
assert_golden(name, snapshot, G) ==
    /\ name \in DOMAIN G
    /\ compute_digest(snapshot.ascii) = G[name].digest

\* The body of execute_step's try block for the step kinds that do not
\* poll: the set of its possible ends.
StepBody(step, env, c, G, save_goldens_flag) ==
    LET t == step.type
        p == StepParams(step)
    IN
    CASE t = "press" -> press(Get(p, "aid", "Enter"), c, G)
      [] t = "fill_at" ->
            IF "row" \notin DOMAIN p THEN KeyError("'row'", c, G)
            ELSE IF "col" \notin DOMAIN p THEN KeyError("'col'", c, G)
            ELSE fill_at(p["row"], p["col"], ResolveValue(p, env),
                         Get(p, "secret", FALSE), c, G)
      [] t = "fill_by_label" ->
            IF "label" \notin DOMAIN p THEN KeyError("'label'", c, G)
            ELSE fill_by_label(p["label"], Get(p, "offset", "1"),
                               ResolveValue(p, env), Get(p, "secret", FALSE),
                               c, G)
      [] t = "assert_screen" ->
            { IF Raised(s)
              THEN Ret("raise", "ConnectionError", <<>>, c, G, <<>>,
                       << <<"GET /screen">> >>)
              ELSE LET m == match_screen(s, p)
                   IN IF m.matched
                      THEN Ret("True", "",
                               <<LogEntry(<<"assert_screen">>,
                                          <<"matched">> \o m.rule, FALSE,
                                          s.digest)>>,
                               s.digest, G, <<>>, << <<"GET /screen">> >>)
                      ELSE Ret("False", "",
                               <<LogEntry(<<"assert_screen">>, <<"FAILED">>,
                                          FALSE, s.digest)>>,
                               s.digest, G, save_failure_screen("assert_fail", s.ascii),
                               << <<"GET /screen">> >>)
              : s \in GetScreenResults }
      [] t = "assert_not_screen" ->
            { IF Raised(s)
              THEN Ret("raise", "ConnectionError", <<>>, c, G, <<>>,
                       << <<"GET /screen">> >>)
              ELSE LET m == match_screen(s, p)
                   IN IF ~m.matched
                      THEN Ret("True", "",
                               <<LogEntry(<<"assert_not_screen">>, <<"passed">>,
                                          FALSE, s.digest)>>,
                               s.digest, G, <<>>, << <<"GET /screen">> >>)
                      ELSE Ret("False", "",
                               <<LogEntry(<<"assert_not_screen">>,
                                          <<"FAILED", "matched">> \o m.rule,
                                          FALSE, s.digest)>>,
                               s.digest, G, save_failure_screen("assert_fail", s.ascii),
                               << <<"GET /screen">> >>)
              : s \in GetScreenResults }
      [] t = "snapshot" ->
            { IF Raised(s)
              THEN Ret("raise", "ConnectionError", <<>>, c, G, <<>>,
                       << <<"GET /screen">> >>)
              ELSE Ret("True", "",
                       <<LogEntry(<<"snapshot", Get(p, "name", "snapshot")>>,
                                  <<>>, FALSE, s.digest)>>,
                       s.digest,
                       IF save_goldens_flag
                       THEN save_golden(Get(p, "name", "snapshot"), s, G)
                       ELSE G,
                       <<>>, << <<"GET /screen">> >>)
              : s \in GetScreenResults }
      [] t = "golden:save" ->
            IF "name" \notin DOMAIN p THEN KeyError("'name'", c, G)
            ELSE
            { IF Raised(s)
              THEN Ret("raise", "ConnectionError", <<>>, c, G, <<>>,
                       << <<"GET /screen">> >>)
              ELSE Ret("True", "",
                       <<LogEntry(<<"golden:save", p["name"]>>, <<>>, FALSE,
                                  s.digest)>>,
                       s.digest, save_golden(p["name"], s, G), <<>>,
                       << <<"GET /screen">> >>)
              : s \in GetScreenResults }
      [] t = "golden:assert" ->
            IF "name" \notin DOMAIN p THEN KeyError("'name'", c, G)
            ELSE
            { IF Raised(s)
              THEN Ret("raise", "ConnectionError", <<>>, c, G, <<>>,
                       << <<"GET /screen">> >>)
              ELSE IF assert_golden(p["name"], s, G)
                   THEN Ret("True", "",
                            <<LogEntry(<<"golden:assert", p["name"]>>,
                                       <<"matches">>, FALSE, s.digest)>>,
                            s.digest, G, <<>>, << <<"GET /screen">> >>)
                   ELSE Ret("False", "",
                            <<LogEntry(<<"golden:assert", p["name"]>>,
                                       <<"FAILED">>, FALSE, s.digest)>>,
                            s.digest, G, <<>>, << <<"GET /screen">> >>)
              : s \in GetScreenResults }
      [] t = "sleep_ms" ->
            \* ms = params if isinstance(params, int) else params.get('ms', 1000)
            \* where params is already a dict
            { Ret("True", "",
                  <<LogEntry(<<"sleep", Get(p, "ms", "1000")>>, <<>>, FALSE, c)>>,
                  c, G, <<>>, <<>>) }
      [] OTHER -> unknown_step(t, c, G)

\* except Exception as e: log "<step_type>: ERROR: <e>" and return False
Catch(step_type, o) ==
    IF o.res = "raise"
    THEN [o EXCEPT !.res = "False",
                   !.logs = @ \o <<LogEntry(<<step_type>>, <<"ERROR", o.msg>>,
                                            FALSE, o.cur)>>]
    ELSE o

\* execute_step for the kinds that do not poll
execute_step(step, env, c, G, save_goldens_flag) ==
    { Catch(step.type, o) : o \in StepBody(step, env, c, G, save_goldens_flag) }

IsWait(step) == step.type \in {"wait_ready", "wait_change"}

(* ---------------- flow declarations ---------------- *)

A1 == DictStep("assert_screen", [ascii_contains |-> "LOGON"])
P1 == DictStep("press", [aid |-> "Enter"])
GA == DictStep("golden:assert", [name |-> "g"])
F1 == DictStep("fill_at", [row |-> "1", col |-> "1", value |-> "hunter2",
                           secret |-> TRUE])
W1 == DictStep("wait_change", [timeout_ms |-> "5000"])
U1 == DictStep("frobnicate", [x |-> "1"])
AN1 == DictStep("assert_not_screen", [ascii_contains |-> "READY"])

\* the steps a root flow is written from
FlowStepPool == {A1, P1, GA, W1, F1}

\* every step kind, with and without its optional and required parameters
StepPool ==
    FlowStepPool \cup
    { U1, DictStep("wait_ready", [timeout_ms |-> "5000"]),
      DictStep("press", EmptyDict),
      DictStep("fill_at", [row |-> "1", col |-> "1", value_env |-> "TSO_PASS"]),
      DictStep("fill_at", [row |-> "1", col |-> "1", value_env |-> "TSO_PASS",
                           secret |-> TRUE]),
      DictStep("fill_at", [row |-> "1", col |-> "1", value |-> "IBMUSER"]),
      DictStep("fill_at", [row |-> "1", col |-> "1", value |-> "mypassword"]),
      DictStep("fill_at", [col |-> "1", value |-> "hunter2", secret |-> TRUE]),
      DictStep("fill_at", [row |-> "1", col |-> "1", value_env |-> "UNSET",
                           secret |-> TRUE]),
      DictStep("fill_by_label", [label |-> "Password", value |-> "hunter2",
                                 secret |-> TRUE]),
      DictStep("fill_by_label", [label |-> "Userid", offset |-> "2",
                                 value_env |-> "TSO_USER"]),
      DictStep("fill_by_label", [value |-> "hunter2", secret |-> TRUE]),
      AN1,
      DictStep("snapshot", [name |-> "new"]),
      DictStep("golden:save", [name |-> "new"]),
      DictStep("golden:save", EmptyDict),
      DictStep("golden:assert", [name |-> "new"]),
      DictStep("sleep_ms", [ms |-> "250"]),
      IntStep("sleep_ms", "250") }

Rule(trigger, do) == [d |-> [when_ascii_contains |-> trigger], do |-> do]
RuleNoTrigger(do) == [d |-> [note |-> "no trigger"], do |-> do]

\* a flow's 'recovery' key: absent, or a list of rules
RecoveryPool ==
    { [has |-> FALSE, rules |-> <<>>],
      [has |-> TRUE,  rules |-> <<>>],
      [has |-> TRUE,  rules |-> <<Rule("LOGON", <<W1>>)>>],
      [has |-> TRUE,  rules |-> <<RuleNoTrigger(<<U1>>),
                                  Rule("READY", <<AN1, P1>>)>>],
      [has |-> TRUE,  rules |-> <<Rule("LOGON", <<>>),
                                  Rule("LOGON", <<P1>>)>>] }

ImportsPool == { <<>>, <<"a", "missing", "b">> }

Flow(name, imports, steps, rec) ==
    [name |-> name, imports |-> imports, steps |-> steps,
     hasRecovery |-> rec.has, recovery |-> rec.rules]

\* the flow files of the flows directory ("missing" is not among them);
\* s imports itself, m and n import each other
Library ==
    [ n \in {"a", "b", "c", "s", "m", "n"} |->
        CASE n = "a" -> Flow("a", <<"c">>, <<P1>>, [has |-> FALSE, rules |-> <<>>])
          [] n = "b" -> Flow("b", <<>>, <<GA>>,
                             [has |-> TRUE, rules |-> <<Rule("READY", <<>>)>>])
          [] n = "c" -> Flow("c", <<>>, <<A1>>, [has |-> FALSE, rules |-> <<>>])
          [] n = "s" -> Flow("s", <<"s">>, <<P1>>, [has |-> FALSE, rules |-> <<>>])
          [] n = "m" -> Flow("m", <<"n">>, <<P1>>, [has |-> FALSE, rules |-> <<>>])
          [] n = "n" -> Flow("n", <<"m">>, <<>>, [has |-> FALSE, rules |-> <<>>]) ]

\* the nested execute_flow calls the interpreter allows before it raises
\* RecursionError
RecursionLimit == 4

StepLists == UNION { [1..n -> FlowStepPool] : n \in 1..MaxSteps }

RootFlows ==
    { Flow("root", im, st, rec) :
        im \in ImportsPool, st \in StepLists, rec \in RecoveryPool }

(* ---------------- state ---------------- *)

VARIABLES
    root,               \* the declaration execute_flow is called with
    env_vars,           \* FlowRunner.env_vars
    save_goldens_flag,  \* FlowRunner.save_goldens_flag
    transcript,         \* FlowRunner.transcript
    cur,                \* FlowRunner.current_digest
    goldens,            \* the golden store: name -> stored text and digest
    fails,              \* the failure screens written
    driver,             \* the requests sent to the bridge
    status,             \* Idle, Running, Completed, Failed, or Raised
    stack,              \* the execute_flow activations, the innermost last
    wait,               \* the polling loop in progress, if any
    trace,              \* history: starts, imports, steps and returns
    calls               \* history: one record per finished execute_step call

\* the flow runner's state
flowvars == <<root, env_vars, save_goldens_flag, transcript, cur, goldens,
              fails, driver, status, stack, wait, trace, calls>>

VARIABLES
    jsonl,              \* JSONLLogger: the entries written to the log file
    logged              \* history: the params each log_action call was given

loggervars == <<jsonl, logged>>

VARIABLES
    logfiles,           \* the transcript files FlowRunner.run has written
    run_result          \* what run has returned: none yet, True, False, raise

runvars == <<logfiles, run_result>>

VARIABLES
    fn_in,              \* the arguments of a call of a function of
                        \* screen_fingerprint.py
    fn_out,             \* its result, once it has returned
    captured,           \* the snapshots the bridge has captured
    golden_files        \* the goldens directory: name -> text and metadata

purevars == <<fn_in, fn_out, captured, golden_files>>

VARIABLES
    screen,             \* the text the terminal shows, where it is followed
    sent                \* the commands the bridge has written to s3270

termvars == <<screen, sent>>

VARIABLES
    command_dir,        \* the command directory: the cmd_ files waiting, the
                        \* names moved to processed/, the result_ files
    controller,         \* the ClaudeCodeController: its sequence, the result
                        \* it waits for, and what its waits have returned
    monitor_log,        \* the turns of _monitor_commands so far
    now                 \* the clock, in seconds

agentvars == <<command_dir, controller, monitor_log, now>>

\* the state outside execute_flow
outside == <<loggervars, runvars, purevars, termvars, agentvars>>

vars == <<flowvars, outside>>

LoggerIdle ==
    /\ jsonl = <<>>
    /\ logged = <<>>

RunIdle ==
    /\ logfiles = <<>>
    /\ run_result = "none"

\* the terminal is not followed: every GET /screen answers any snapshot
TermIdle ==
    /\ screen = "any"
    /\ sent = <<>>

\* an empty command directory and a controller just constructed
AgentIdle ==
    /\ command_dir = [cmds |-> {}, processed |-> {}, results |-> <<>>]
    /\ controller = [sequence |-> 0, waiting |-> 0, asked |-> 0, sends |-> 0,
                     restarts |-> 0, returned |-> <<>>]
    /\ monitor_log = <<>>
    /\ now = 0

NotCalled == [done |-> FALSE]

PureIdle ==
    /\ fn_in = [op |-> "none"]
    /\ fn_out = NotCalled
    /\ captured = <<>>
    /\ golden_files = EmptyDict

OutsideInit ==
    /\ LoggerIdle
    /\ RunIdle
    /\ TermIdle
    /\ AgentIdle
    /\ PureIdle

NoWait == [type |-> "none", polls |-> 0, initial |-> None, step |-> NoStep,
           before |-> 0]

InitCommon ==
    /\ env_vars = [TSO_USER |-> "IBMUSER", TSO_PASS |-> "hunter2"]
    /\ transcript = <<>>
    /\ cur = None
    /\ goldens = [n \in {"g"} |-> [ascii |-> "LOGON", digest |-> "sha:LOGON"]]
    /\ fails = <<>>
    /\ driver = <<>>
    /\ status = "Idle"
    /\ wait = NoWait
    /\ trace = <<>>
    /\ calls = <<>>

\* no flow is run
FlowIdle ==
    /\ root = Flow("root", <<>>, <<>>, [has |-> FALSE, rules |-> <<>>])
    /\ save_goldens_flag = FALSE
    /\ stack = <<>>
    /\ InitCommon

Init ==
    /\ root \in RootFlows
    /\ save_goldens_flag = FALSE
    /\ stack = <<>>
    /\ InitCommon
    /\ OutsideInit

Decl(name) == IF name = "root" THEN root ELSE Library[name]

\* import_path.exists()
Exists(import_file) == import_file \in DOMAIN Library

Top == stack[Len(stack)]
SetTop(f) == [stack EXCEPT ![Len(stack)] = f]

Frame(eid, flow) == [eid |-> eid, flow |-> flow, pc |-> "imports", i |-> 1,
                     r |-> 0, j |-> 0]

Event(ev, eid, par, flow, i, j, ok) ==
    [ev |-> ev, eid |-> eid, par |-> par, flow |-> flow, i |-> i, j |-> j,
     ok |-> ok]

Starts == { k \in 1..Len(trace) : trace[k].ev = "start" }

(* ---------------- execute_flow ---------------- *)

\* (mutant) the loop leaves a step out
SkipStep(i) == i + 2

\* for i, step in enumerate(steps): the step after step i
NextStep(i) == i + 1

\* (mutant) recovery retries the failed step
RetryFailedStep(i) == i

\* `continue` after handle_recovery returned True: the step after the
\* failed one
ResumeAfterRecovery(i) == i + 1

\* `return False` of the innermost execute_flow: its caller, an execute_flow
\* in its import loop, returns False in turn.
RECURSIVE ReturnFalse(_)
ReturnFalse(stk) ==
    IF stk = <<>> THEN <<>>
    ELSE LET rest == SubSeq(stk, 1, Len(stk) - 1)
         IN IF rest # <<>> /\ rest[Len(rest)].pc = "imports"
            THEN ReturnFalse(rest)
            ELSE rest

\* `return True` of the innermost execute_flow: its caller goes on with its
\* next import.
ReturnTrue(stk) ==
    LET rest == SubSeq(stk, 1, Len(stk) - 1)
    IN IF rest = <<>> THEN rest
       ELSE [rest EXCEPT ![Len(rest)].i = @ + 1]

\* history: the activations of old that are gone in new returned ok
RetEvents(old, new, ok) ==
    [k \in 1..(Len(old) - Len(new)) |->
        Event("ret", old[Len(old) + 1 - k].eid, 0, old[Len(old) + 1 - k].flow,
              old[Len(old) + 1 - k].i, 0, ok)]

\* (mutant) the last rule whose trigger is in the text
LastMatch(recovery, ascii) ==
    LET hit == { k \in 1..Len(recovery) :
                   /\ "when_ascii_contains" \in DOMAIN recovery[k].d
                   /\ AsciiContains(ascii, recovery[k].d["when_ascii_contains"]) }
    IN IF hit = {} THEN 0 ELSE CHOOSE k \in hit : \A m \in hit : k >= m

\* the first rule that has a trigger and whose trigger is in the text, 0 if
\* there is none
FirstMatch(recovery, ascii) ==
    LET hit == { k \in 1..Len(recovery) :
                   /\ "when_ascii_contains" \in DOMAIN recovery[k].d
                   /\ AsciiContains(ascii, recovery[k].d["when_ascii_contains"]) }
    IN IF hit = {} THEN 0 ELSE CHOOSE k \in hit : \A m \in hit : k <= m

Ctl(stk, st, tr, events) ==
    [stack |-> stk, status |-> st, transcript |-> tr, events |-> events]

\* (mutant) the failure is logged and the loop goes on
FlowFailedContinue(tr, c) ==
    Ctl(SetTop([Top EXCEPT !.pc = "steps", !.i = @ + 1, !.r = 0, !.j = 0]),
        status,
        Append(tr, LogEntry(<<"Flow failed at step", ToString(Top.i)>>,
                            <<>>, FALSE, c)),
        <<>>)

\* log "Flow failed at step i" and return False
FlowFailed(tr, c) ==
    LET new == ReturnFalse(stack)
    IN Ctl(new, IF new = <<>> THEN "Failed" ELSE "Running",
           Append(tr, LogEntry(<<"Flow failed at step", ToString(Top.i)>>,
                               <<>>, FALSE, c)),
           RetEvents(stack, new, FALSE))

\* handle_recovery returned True
Recovered(tr, r) ==
    Ctl(SetTop([Top EXCEPT !.pc = "steps", !.i = ResumeAfterRecovery(@),
                           !.r = 0, !.j = 0]),
        status, tr,
        <<Event("recovered", Top.eid, 0, Top.flow, Top.i, r, TRUE)>>)

\* a failed step: the flow's recovery rules if it declares any
StepFailed(tr, c) ==
    IF Decl(Top.flow).hasRecovery
    THEN Ctl(SetTop([Top EXCEPT !.pc = "recover"]), status, tr, <<>>)
    ELSE FlowFailed(tr, c)

\* What the caller of execute_step does with its result ok, the transcript
\* being tr and current_digest c.
Control(ok, tr, c) ==
    CASE Top.pc = "steps" ->
            IF ok
            THEN Ctl(SetTop([Top EXCEPT !.i = NextStep(@)]), status, tr, <<>>)
            ELSE StepFailed(tr, c)
      [] Top.pc = "do" ->
            IF ok
            THEN IF Top.j < Len(Decl(Top.flow).recovery[Top.r].do)
                 THEN Ctl(SetTop([Top EXCEPT !.j = @ + 1]), status, tr, <<>>)
                 ELSE Recovered(tr, Top.r)
            ELSE FlowFailed(tr, c)
      [] OTHER -> Ctl(stack, status, tr, <<>>)

\* execute_step has ended with o: its effects, and its caller's reaction
Finish(step, o, began, before) ==
    LET ok  == o.res = "True"
        tr1 == transcript \o o.logs
        ctl == Control(ok, tr1, o.cur)
        ctx == IF Top.pc = "steps" THEN "step" ELSE Top.pc
    IN  /\ cur' = o.cur
        /\ goldens' = o.goldens
        /\ fails' = fails \o o.fails
        /\ driver' = driver \o o.driver
        /\ transcript' = ctl.transcript
        /\ stack' = ctl.stack
        /\ status' = ctl.status
        /\ wait' = NoWait
        /\ calls' = Append(calls,
              [eid |-> Top.eid, ctx |-> ctx, i |-> Top.i, j |-> Top.j,
               step |-> step, before |-> before, after |-> Len(tr1),
               ok |-> ok])
        /\ trace' = trace
              \o (IF began THEN <<>>
                  ELSE <<Event(ctx \o "_begin", Top.eid, 0, Top.flow, Top.i, Top.j, TRUE)>>)
              \o <<Event(ctx \o "_end", Top.eid, 0, Top.flow, Top.i, Top.j, ok)>>
              \o ctl.events

\* wait_ready / wait_change: the loop starts
BeginWait(step) ==
    LET ctx == IF Top.pc = "steps" THEN "step" ELSE Top.pc
    IN  /\ wait' = [type |-> step.type, polls |-> 0, initial |-> cur,
                    step |-> step, before |-> Len(transcript)]
        /\ trace' = Append(trace,
              Event(ctx \o "_begin", Top.eid, 0, Top.flow, Top.i, Top.j, TRUE))
        /\ UNCHANGED <<transcript, cur, goldens, fails, driver, status, stack,
                       calls>>

\* execute_step(step) called from the frame on top
Execute(step) ==
    IF IsWait(step) THEN BeginWait(step)
    ELSE \E o \in execute_step(step, env_vars, cur, goldens, save_goldens_flag) :
            Finish(step, o, FALSE, Len(transcript))

InFlow == status = "Running" /\ stack # <<>> /\ wait = NoWait

\* execute_flow(flow) is called
StartFlow ==
    /\ status = "Idle"
    /\ stack = <<>>
    /\ status' = "Running"
    /\ transcript' = Append(transcript,
          LogEntry(<<"Starting flow", root.name>>, <<>>, FALSE, cur))
    /\ stack' = <<Frame(1, "root")>>
    /\ trace' = Append(trace, Event("start", 1, 0, "root", 0, 0, TRUE))
    /\ UNCHANGED <<outside, root, env_vars, save_goldens_flag, cur, goldens, fails,
                   driver, wait, calls>>

\* one turn of the import loop, or its end
Import ==
    /\ InFlow
    /\ Top.pc = "imports"
    /\ LET fl == Decl(Top.flow)
       IN \/ /\ Top.i > Len(fl.imports)
             /\ stack' = SetTop([Top EXCEPT !.pc = "steps", !.i = 1])
             /\ UNCHANGED <<transcript, trace, status>>
          \/ /\ Top.i <= Len(fl.imports)
             /\ Exists(fl.imports[Top.i])
             /\ Len(stack) >= RecursionLimit
             \* RecursionError, raised outside any try block
             /\ stack' = <<>>
             /\ status' = "Raised"
             /\ trace' = Append(trace,
                   Event("RecursionError", Top.eid, 0, Top.flow, Top.i, 0, FALSE))
             /\ UNCHANGED transcript
          \/ /\ Top.i <= Len(fl.imports)
             /\ Exists(fl.imports[Top.i])
             /\ Len(stack) < RecursionLimit
             /\ status' = status
             /\ transcript' = transcript \o
                   << LogEntry(<<"Importing", fl.imports[Top.i]>>, <<>>, FALSE, cur),
                      LogEntry(<<"Starting flow", Decl(fl.imports[Top.i]).name>>,
                               <<>>, FALSE, cur) >>
             /\ stack' = Append(stack,
                   Frame(Cardinality(Starts) + 1, fl.imports[Top.i]))
             /\ trace' = Append(trace,
                   Event("start", Cardinality(Starts) + 1, Top.eid,
                         fl.imports[Top.i], Top.i, 0, TRUE))
          \/ /\ Top.i <= Len(fl.imports)
             /\ ~Exists(fl.imports[Top.i])
             /\ stack' = SetTop([Top EXCEPT !.i = @ + 1])
             /\ trace' = Append(trace,
                   Event("skip", Top.eid, 0, fl.imports[Top.i], Top.i, 0, TRUE))
             /\ UNCHANGED <<transcript, status>>
    /\ UNCHANGED <<outside, root, env_vars, save_goldens_flag, cur, goldens, fails,
                   driver, wait, calls>>

\* one turn of the step loop
Step ==
    /\ InFlow
    /\ Top.pc = "steps"
    /\ Top.i <= Len(Decl(Top.flow).steps)
    /\ Execute(Decl(Top.flow).steps[Top.i])
    /\ UNCHANGED <<outside, root, env_vars, save_goldens_flag>>

\* the step loop has ended: log "Flow completed" and return True
Complete ==
    /\ InFlow
    /\ Top.pc = "steps"
    /\ Top.i > Len(Decl(Top.flow).steps)
    /\ transcript' = Append(transcript,
          LogEntry(<<"Flow completed", Decl(Top.flow).name>>, <<>>, FALSE, cur))
    /\ stack' = ReturnTrue(stack)
    /\ status' = IF Len(stack) = 1 THEN "Completed" ELSE "Running"
    /\ trace' = Append(trace, Event("ret", Top.eid, 0, Top.flow, Top.i, 0, TRUE))
    /\ UNCHANGED <<outside, root, env_vars, save_goldens_flag, cur, goldens, fails,
                   driver, wait, calls>>

(* ---------------- handle_recovery ---------------- *)

\* handle_recovery up to the first remedial step: a fresh snapshot, taken
\* outside any try block, and the first rule whose trigger is in its text
Recover ==
    /\ InFlow
    /\ Top.pc = "recover"
    /\ \E s \in GetScreenResults :
          /\ driver' = Append(driver, <<"GET /screen">>)
          /\ IF Raised(s)
             THEN /\ stack' = <<>>
                  /\ status' = "Raised"
                  /\ trace' = Append(trace,
                        Event("raise", Top.eid, 0, Top.flow, Top.i, 0, FALSE))
                  /\ UNCHANGED <<transcript, cur>>
             ELSE LET rules == Decl(Top.flow).recovery
                      r     == FirstMatch(rules, s.ascii)
                      tr1   == Append(transcript,
                                  LogEntry(<<"Recovery triggered",
                                             rules[r].d["when_ascii_contains"]>>,
                                           <<>>, FALSE, s.digest))
                      ctl   == IF r = 0
                               THEN LET c0 == FlowFailed(transcript, s.digest)
                                    IN [c0 EXCEPT !.events =
                                          <<Event("nomatch", Top.eid, 0,
                                                  Top.flow, Top.i, 0, FALSE)>> \o @]
                               ELSE IF rules[r].do = <<>>
                               THEN LET c0 == Recovered(tr1, r)
                                    IN [c0 EXCEPT !.events =
                                          <<Event("triggered", Top.eid, 0,
                                                  Top.flow, Top.i, r, TRUE)>> \o @]
                               ELSE Ctl(SetTop([Top EXCEPT !.pc = "do", !.r = r,
                                                           !.j = 1]),
                                        status, tr1,
                                        <<Event("triggered", Top.eid, 0,
                                                Top.flow, Top.i, r, TRUE)>>)
                  IN /\ cur' = s.digest
                     /\ stack' = ctl.stack
                     /\ status' = ctl.status
                     /\ transcript' = ctl.transcript
                     /\ trace' = trace \o ctl.events
    /\ UNCHANGED <<outside, root, env_vars, save_goldens_flag, goldens, fails, wait,
                   calls>>

\* for action in rule.get('do', []): one remedial step
Do ==
    /\ InFlow
    /\ Top.pc = "do"
    /\ Execute(Decl(Top.flow).recovery[Top.r].do[Top.j])
    /\ UNCHANGED <<outside, root, env_vars, save_goldens_flag>>

(* ---------------- wait_ready, wait_change ---------------- *)

TimeoutMs(step) == Get(StepParams(step), "timeout_ms", "5000")

\* One evaluation of the loop condition of wait_ready / wait_change and, if
\* the time is not up, one turn of the loop.
Poll ==
    /\ wait # NoWait
    /\ \/ \* time.time() - start >= timeout: return False
          /\ Finish(wait.step,
                Ret("False", "",
                    <<LogEntry(<<wait.type, TimeoutMs(wait.step)>>,
                               <<"timeout">>, FALSE, cur)>>,
                    cur, goldens, <<>>, <<>>),
                TRUE, wait.before)
       \/ \* wait_ready: GET /status says connected
          /\ wait.type = "wait_ready"
          /\ wait.polls < MaxPolls
          /\ Finish(wait.step,
                Ret("True", "",
                    <<LogEntry(<<wait.type, TimeoutMs(wait.step)>>,
                               <<"ready">>, FALSE, cur)>>,
                    cur, goldens, <<>>, << <<"GET /status">> >>),
                TRUE, wait.before)
       \/ \* wait_ready: not connected, or the request raised (except: pass)
          /\ wait.type = "wait_ready"
          /\ wait.polls < MaxPolls
          /\ wait' = [wait EXCEPT !.polls = @ + 1]
          /\ driver' = Append(driver, <<"GET /status">>)
          /\ UNCHANGED <<transcript, cur, goldens, fails, status, stack, trace,
                         calls>>
       \/ \* wait_change: a snapshot, or get_screen raises
          /\ wait.type = "wait_change"
          /\ wait.polls < MaxPolls
          /\ \E s \in GetScreenResults :
                IF Raised(s)
                THEN Finish(wait.step,
                        Catch(wait.type,
                              Ret("raise", "ConnectionError", <<>>, cur, goldens,
                                  <<>>, << <<"GET /screen">> >>)),
                        TRUE, wait.before)
                ELSE IF s.digest # wait.initial
                THEN Finish(wait.step,
                        Ret("True", "",
                            <<LogEntry(<<wait.type, TimeoutMs(wait.step)>>,
                                       <<"changed">>, FALSE, s.digest)>>,
                            s.digest, goldens, <<>>, << <<"GET /screen">> >>),
                        TRUE, wait.before)
                ELSE /\ wait' = [wait EXCEPT !.polls = @ + 1]
                     /\ cur' = s.digest
                     /\ driver' = Append(driver, <<"GET /screen">>)
                     /\ UNCHANGED <<transcript, goldens, fails, status, stack,
                                    trace, calls>>
    /\ UNCHANGED <<outside, root, env_vars, save_goldens_flag>>

(* ---------------- specifications ---------------- *)

\* One flow, from execute_flow(root) to its end.
Next == StartFlow \/ Import \/ Step \/ Recover \/ Do \/ Poll \/ Complete

Spec == Init /\ [][Next]_vars

\* flows whose imports lead into a cycle, or that import nothing
CycleFlows ==
    { Flow("root", im, st, rec) :
        im \in {<<>>, <<"s">>, <<"m">>, <<"a", "n">>}, st \in StepLists,
        rec \in { [has |-> FALSE, rules |-> <<>>],
                  [has |-> TRUE,  rules |-> <<Rule("LOGON", <<W1>>)>>] } }

CycleInit ==
    /\ root \in CycleFlows
    /\ save_goldens_flag = FALSE
    /\ stack = <<>>
    /\ InitCommon
    /\ OutsideInit

\* execute_flow on flows with import cycles; the interpreter goes on as
\* long as there is a statement to execute
CycleSpec == CycleInit /\ [][Next]_vars /\ WF_vars(Next)

\* execute_step called directly, on any step, up to MaxCalls times.
StepInit ==
    /\ root = Flow("root", <<>>, <<>>, [has |-> FALSE, rules |-> <<>>])
    /\ save_goldens_flag \in BOOLEAN
    /\ stack = << [Frame(0, "root") EXCEPT !.pc = "call", !.i = 0] >>
    /\ InitCommon
    /\ OutsideInit

CallStep ==
    /\ status = "Idle"
    /\ wait = NoWait
    /\ Len(calls) < MaxCalls
    /\ \E step \in StepPool : Execute(step)
    /\ UNCHANGED <<outside, root, env_vars, save_goldens_flag>>

StepNext == CallStep \/ Poll

StepSpec == StepInit /\ [][StepNext]_vars

\* steps that lack a required parameter, a step of an unknown kind, and a
\* well-formed one
BadStepPool ==
    { DictStep("fill_at", [col |-> "1", value |-> "hunter2", secret |-> TRUE]),
      DictStep("fill_at", [row |-> "1", value |-> "IBMUSER"]),
      DictStep("fill_by_label", [value |-> "hunter2", secret |-> TRUE]),
      DictStep("golden:save", EmptyDict),
      IntStep("golden:assert", "7"),
      U1, P1 }

BadStepFlows ==
    { Flow("root", <<>>, st, rec) :
        st \in UNION { [1..n -> BadStepPool] : n \in 1..MaxSteps },
        rec \in RecoveryPool }

BadStepInit ==
    /\ root \in BadStepFlows
    /\ save_goldens_flag = FALSE
    /\ stack = <<>>
    /\ InitCommon
    /\ OutsideInit

\* execute_flow on flows whose steps are malformed
BadStepSpec == BadStepInit /\ [][Next]_vars

(* ---------------- FlowRunner.run ---------------- *)

\* the root flows run is given
RunFlows == { f \in RootFlows : f.imports = <<>> \/ Len(f.steps) = 1 }

\* the file save_transcript(flow_name, success) writes
LogFile(flow_name, success, tr) ==
    [flow_name |-> flow_name, success |-> success, lines |-> save_transcript(tr)]

\* run with the disconnect written after the try statement instead of in a
\* finally block: an early "return False" leaves without it
RunExitAfterTry(tr, c, lf, fl, result, d) ==
    /\ logfiles' = lf
    /\ fails' = fl
    /\ cur' = c
    /\ IF result = "False"
       THEN /\ driver' = driver
            /\ transcript' = tr
            /\ run_result' = result
       ELSE /\ driver' = Append(driver, <<"POST /disconnect">>)
            /\ IF d = "raise"
               THEN /\ transcript' = tr
                    /\ run_result' = "raise"
               ELSE /\ transcript' = Append(tr, LogEntry(<<"Disconnected">>, <<>>, FALSE, c))
                    /\ run_result' = result

\* The end of run: the files written so far are lf and fl, the value on its
\* way out is result; the finally block calls disconnect, whose POST ends
\* d: it returns (whatever the status) and "Disconnected" is logged, or it
\* raises and the exception replaces the value.
RunExit(tr, c, lf, fl, result, d) ==
    /\ logfiles' = lf
    /\ fails' = fl
    /\ cur' = c
    /\ driver' = Append(driver, <<"POST /disconnect">>)
    /\ IF d = "raise"
       THEN /\ transcript' = tr
            /\ run_result' = "raise"
       ELSE /\ transcript' = Append(tr, LogEntry(<<"Disconnected">>, <<>>, FALSE, c))
            /\ run_result' = result

\* except Exception as e: log the error, save the transcript as failed, try
\* to dump the screen (s is what get_screen gives), return False
RunExcept(msg, s, d) ==
    LET tr1 == Append(transcript, LogEntry(<<"Error", msg>>, <<>>, FALSE, cur))
    IN RunExit(tr1,
               IF Raised(s) THEN cur ELSE s.digest,
               Append(logfiles, LogFile("root", FALSE, tr1)),
               IF Raised(s) THEN fails
               ELSE fails \o save_failure_screen("root", s.ascii),
               "False", d)

\* run, from its call to the end of connect()
Connect ==
    /\ status = "NotConnected"
    /\ run_result = "none"
    /\ \E r \in PostResults :
          CASE r = "True" ->
                /\ status' = "Idle"
                /\ transcript' = Append(transcript,
                      LogEntry(<<"Connected to 127.0.0.1:3270">>, <<>>, FALSE, cur))
                /\ driver' = Append(driver, <<"POST /connect">>)
                /\ UNCHANGED <<cur, fails, logfiles, run_result>>
            [] r = "False" ->
                \* print("Failed to connect"); return False
                /\ status' = "NoSession"
                /\ \E d \in PostResults :
                      RunExit(transcript, cur, logfiles, fails, "False", d)
            [] OTHER ->
                /\ status' = "NoSession"
                /\ \E s \in GetScreenResults, d \in PostResults :
                      RunExcept(PostMsg(r), s, d)
    /\ UNCHANGED <<loggervars, purevars, termvars, agentvars, root, env_vars, save_goldens_flag, goldens,
                   stack, wait, trace, calls>>

\* run, from the end of execute_flow to its own end
RunReturn ==
    /\ status \in {"Completed", "Failed", "Raised"}
    /\ run_result = "none"
    /\ IF status = "Raised"
       THEN \E s \in GetScreenResults, d \in PostResults :
               RunExcept("ConnectionError", s, d)
       ELSE \E d \in PostResults :
               RunExit(transcript, cur,
                       Append(logfiles,
                              LogFile("root", status = "Completed", transcript)),
                       fails,
                       IF status = "Completed" THEN "True" ELSE "False", d)
    /\ UNCHANGED <<loggervars, purevars, termvars, agentvars, root, env_vars, save_goldens_flag, goldens,
                   status, stack, wait, trace, calls>>

RunInit ==
    /\ root \in RunFlows
    /\ save_goldens_flag = FALSE
    /\ stack = <<>>
    /\ env_vars = [TSO_USER |-> "IBMUSER", TSO_PASS |-> "hunter2"]
    /\ transcript = <<>>
    /\ cur = None
    /\ goldens = [n \in {"g"} |-> [ascii |-> "LOGON", digest |-> "sha:LOGON"]]
    /\ fails = <<>>
    /\ driver = <<>>
    /\ status = "NotConnected"
    /\ wait = NoWait
    /\ trace = <<>>
    /\ calls = <<>>
    /\ OutsideInit

RunNext == Connect \/ Next \/ RunReturn

\* One call of run(flow_file), the flow file being loadable.
RunSpec == RunInit /\ [][RunNext]_vars

(* ---------------- screen_fingerprint.match_screen ---------------- *)

\* a dict with the one key k
Entry(k, v) == [x \in {k} |-> v]

\* the 'any' and 'all' lists of sub-rules
SubRuleLists ==
    { <<>>, <<Entry("ascii_contains", "LOGON")>>,
      <<Entry("note", "no predicate")>>,
      <<Entry("ascii_contains", "ERR"), Entry("ascii_regex", "R.A")>>,
      <<Entry("ascii_contains", "LOGON") @@ Entry("ascii_regex", "O+"),
        Entry("ascii_regex", "ERR$")>> }

\* the values of a rule's 'match' key, or none
MatchDicts ==
    { EmptyDict, Entry("cols", 80), Entry("rows", 24),
      Entry("rows", 24) @@ Entry("cols", 132) }

MatchOptions ==
    { EmptyDict } \cup
    { Entry("match", d @@ a @@ b) :
        d \in MatchDicts,
        a \in {EmptyDict} \cup { Entry("any", l) : l \in SubRuleLists },
        b \in {EmptyDict} \cup { Entry("all", l) : l \in SubRuleLists } }

StabilityOptions ==
    { EmptyDict, Entry("stability", EmptyDict),
      Entry("stability", Entry("min_chars", 6)),
      Entry("stability", Entry("ascii_contains", "LOGON")) }

\* the rules match_screen is given
ScreenIds ==
    { m @@ st @@ c @@ r @@ a :
        m  \in MatchOptions,
        st \in StabilityOptions,
        c  \in {EmptyDict, Entry("ascii_contains", "LOGON")},
        r  \in {EmptyDict, Entry("ascii_regex", "ERR$")},
        a  \in {EmptyDict} \cup { Entry("any", l) : l \in SubRuleLists } }

\* the snapshots match_screen is given: a text, with its dimensions or
\* without
MatchSnapshots ==
    { Entry("ascii", t) @@ d :
        t \in {"LOGON", "READY", "LOGON  ERR"},
        d \in { EmptyDict, Entry("rows", 24) @@ Entry("cols", 80),
                Entry("rows", 43) @@ Entry("cols", 80) } }
    \cup { EmptyDict }

MatchInit ==
    /\ FlowIdle
    /\ LoggerIdle
    /\ RunIdle
    /\ TermIdle
    /\ AgentIdle
    /\ fn_in \in { [op |-> "match_screen", snapshot |-> sn, screen_id |-> id] :
                    sn \in MatchSnapshots, id \in ScreenIds }
    /\ fn_out = NotCalled
    /\ captured = <<>>
    /\ golden_files = EmptyDict

\* match_screen(snapshot, screen_id) is called
MatchScreen ==
    /\ fn_in.op = "match_screen"
    /\ ~fn_out.done
    /\ fn_out' = [done |-> TRUE,
                  result |-> match_screen(fn_in.snapshot, fn_in.screen_id)]
    /\ UNCHANGED <<flowvars, loggervars, runvars, termvars, agentvars, fn_in, captured, golden_files>>

MatchSpec == MatchInit /\ [][MatchScreen]_vars

(* ---------------- screen_fingerprint.normalize_screen ---------------- *)

\* longest text normalize_screen is given
MaxLen == 4

\* A text is a sequence of characters: a printable one, a space, a tab, a
\* newline.
TextChars == {"a", " ", "\t", "\n"}

Whitespace == {" ", "\t", "\n"}

Texts == UNION { [1..n -> TextChars] : n \in 0..MaxLen }

\* str.split('\n')
RECURSIVE SplitLines(_)
SplitLines(t) ==
    LET nl == { i \in 1..Len(t) : t[i] = "\n" }
    IN IF nl = {} THEN <<t>>
       ELSE LET i == CHOOSE x \in nl : \A y \in nl : x <= y
            IN <<SubSeq(t, 1, i - 1)>> \o SplitLines(SubSeq(t, i + 1, Len(t)))

\* (mutant) one trailing whitespace character is removed
RStripOne(line) ==
    IF line # <<>> /\ line[Len(line)] \in Whitespace
    THEN SubSeq(line, 1, Len(line) - 1)
    ELSE line

\* str.rstrip()
RECURSIVE RStrip(_)
RStrip(line) ==
    IF line # <<>> /\ line[Len(line)] \in Whitespace
    THEN RStrip(SubSeq(line, 1, Len(line) - 1))
    ELSE line

\* str.lstrip()
RECURSIVE LStrip(_)
LStrip(line) ==
    IF line # <<>> /\ Head(line) \in Whitespace
    THEN LStrip(Tail(line))
    ELSE line

\* while lines and not lines[0]: lines.pop(0)
RECURSIVE DropLeadingBlank(_)
DropLeadingBlank(lines) ==
    IF lines # <<>> /\ Head(lines) = <<>>
    THEN DropLeadingBlank(Tail(lines))
    ELSE lines

\* while lines and not lines[-1]: lines.pop()
RECURSIVE DropTrailingBlank(_)
DropTrailingBlank(lines) ==
    IF lines # <<>> /\ lines[Len(lines)] = <<>>
    THEN DropTrailingBlank(SubSeq(lines, 1, Len(lines) - 1))
    ELSE lines

\* '\n'.join(lines)
RECURSIVE JoinLines(_)
JoinLines(lines) ==
    IF lines = <<>> THEN <<>>
    ELSE IF Len(lines) = 1 THEN Head(lines)
    ELSE Head(lines) \o <<"\n">> \o JoinLines(Tail(lines))

normalize_screen(ascii_text) ==
    LET lines == SplitLines(ascii_text)
    IN JoinLines(DropTrailingBlank(DropLeadingBlank(
          [k \in 1..Len(lines) |-> RStrip(lines[k])])))

NormInit ==
    /\ FlowIdle
    /\ LoggerIdle
    /\ RunIdle
    /\ TermIdle
    /\ AgentIdle
    /\ fn_in \in { [op |-> "normalize_screen", text |-> t] : t \in Texts }
    /\ fn_out = NotCalled
    /\ captured = <<>>
    /\ golden_files = EmptyDict

\* normalize_screen(text) is called, and called again on its result
Normalize ==
    /\ fn_in.op = "normalize_screen"
    /\ ~fn_out.done
    /\ fn_out' = [done |-> TRUE,
                  result |-> normalize_screen(fn_in.text),
                  again |-> normalize_screen(normalize_screen(fn_in.text))]
    /\ UNCHANGED <<flowvars, loggervars, runvars, termvars, agentvars, fn_in, captured, golden_files>>

NormSpec == NormInit /\ [][Normalize]_vars

(* ---------------- snapshot digests and goldens ---------------- *)

\* longest screen text the bridge captures
MaxScreenLen == 3
\* most snapshots captured
MaxCaptures == 2

\* The texts s3270 gives: printable characters, spaces, newlines.
ScreenTexts == UNION { [1..n -> {"a", " ", "\n"}] : n \in 0..MaxScreenLen }

\* hashlib.sha256(text.encode()).hexdigest(): one digest per text
Sha256(text) == [sha256 |-> text]

\* re.sub(r'\s+', ' ', text): every run of whitespace becomes one space
RECURSIVE CollapseWhitespace(_)
CollapseWhitespace(t) ==
    IF t = <<>> THEN <<>>
    ELSE IF Head(t) \in Whitespace
         THEN <<" ">> \o CollapseWhitespace(LStrip(t))
         ELSE <<Head(t)>> \o CollapseWhitespace(Tail(t))

\* S3270Session.snapshot: the digest it gives the text it captured
BridgeDigest(ascii_text) ==
    Sha256(CollapseWhitespace(LStrip(RStrip(ascii_text))))

\* S3270Session.snapshot
BridgeSnapshot(ascii_text) ==
    [ascii |-> ascii_text, digest |-> BridgeDigest(ascii_text)]

\* screen_fingerprint.compute_digest on a text given by its characters
compute_digest_text(ascii_text) == Sha256(normalize_screen(ascii_text))

\* str.splitlines()
SplitLinesNoEnd(t) ==
    LET lines == SplitLines(t)
    IN IF lines[Len(lines)] = <<>> THEN SubSeq(lines, 1, Len(lines) - 1)
       ELSE lines

\* A golden is stored in two files: <name>.txt (the key ascii of its entry)
\* and <name>.json (the key digest).
\* text_file.exists() and meta_file.exists()
GoldenStored(name, G) ==
    /\ name \in DOMAIN G
    /\ {"ascii", "digest"} \subseteq DOMAIN G[name]

\* load_golden: the golden, or FileNotFoundError raised
load_golden(name, G) ==
    IF GoldenStored(name, G)
    THEN [raised |-> FALSE, ascii |-> G[name].ascii, digest |-> G[name].digest]
    ELSE [raised |-> TRUE, error |-> "FileNotFoundError"]

\* (mutant) the exception of load_golden is not caught
NotFoundRaises(name) ==
    [matches |-> FALSE, msg |-> <<"raise", "FileNotFoundError">>,
     diff_empty |-> FALSE]

\* except FileNotFoundError: return False, f"Golden '{name}' not found"
NotFound(name) ==
    [matches |-> FALSE, msg |-> <<"Golden", name, "not found">>,
     diff_empty |-> FALSE]

\* assert_golden on texts given by their characters: (matches, diff_output);
\* the diff is the unified diff of the two texts' lines, empty when the
\* lines are the same
assert_golden_text(name, snapshot, G) ==
    LET golden == load_golden(name, G)
    IN
    IF golden.raised THEN NotFound(name)
    ELSE IF compute_digest_text(snapshot.ascii) = golden.digest
    THEN [matches |-> TRUE, msg |-> <<"Digests match">>, diff_empty |-> FALSE]
    ELSE [matches |-> FALSE, msg |-> <<"diff">>,
          diff_empty |-> SplitLinesNoEnd(golden.ascii)
                         = SplitLinesNoEnd(snapshot.ascii)]

GoldenInit ==
    /\ FlowIdle
    /\ LoggerIdle
    /\ RunIdle
    /\ TermIdle
    /\ AgentIdle
    /\ fn_in = [op |-> "golden"]
    /\ fn_out = NotCalled
    /\ captured = <<>>
    /\ golden_files = EmptyDict

\* the bridge captures a screen
Capture ==
    /\ fn_in.op = "golden"
    /\ Len(captured) < MaxCaptures
    /\ \E t \in ScreenTexts : captured' = Append(captured, BridgeSnapshot(t))
    /\ UNCHANGED <<flowvars, loggervars, runvars, termvars, agentvars, fn_in, fn_out, golden_files>>

\* save_golden("n", S), S the first snapshot captured
SaveGolden ==
    /\ fn_in.op = "golden"
    /\ captured # <<>>
    /\ golden_files = EmptyDict
    /\ golden_files' = save_golden("n", captured[1], golden_files)
    /\ UNCHANGED <<flowvars, loggervars, runvars, termvars, agentvars, fn_in, fn_out, captured>>

\* assert_golden("n", S'), S' the last snapshot captured
AssertGolden ==
    /\ fn_in.op = "golden"
    /\ golden_files # EmptyDict
    /\ ~fn_out.done
    /\ fn_out' = [done |-> TRUE, against |-> Len(captured),
                  result |-> assert_golden_text("n", captured[Len(captured)],
                                                golden_files)]
    /\ UNCHANGED <<flowvars, loggervars, runvars, termvars, agentvars, fn_in, captured, golden_files>>

GoldenNext == Capture \/ SaveGolden \/ AssertGolden

GoldenSpec == GoldenInit /\ [][GoldenNext]_vars

(* ---------------- assert_golden on a partial store ---------------- *)

GoldenNames == {"ready", "n"}

\* what the goldens directory holds for one name: nothing, one of the two
\* files, or both
GoldenParts(t) ==
    { EmptyDict, Entry("ascii", t), Entry("digest", BridgeDigest(t)),
      Entry("ascii", t) @@ Entry("digest", BridgeDigest(t)) }

\* the goldens directories assert_golden is called on
GoldenStores ==
    { [n \in { x \in GoldenNames : parts[x] # EmptyDict } |-> parts[n]] :
        parts \in [GoldenNames -> GoldenParts(<<"a">>)] }

LoadInit ==
    /\ FlowIdle
    /\ LoggerIdle
    /\ RunIdle
    /\ TermIdle
    /\ AgentIdle
    /\ golden_files \in GoldenStores
    /\ fn_in \in { [op |-> "assert_golden", name |-> n,
                     snapshot |-> BridgeSnapshot(t), files |-> golden_files] :
                    n \in GoldenNames, t \in ScreenTexts }
    /\ fn_out = NotCalled
    /\ captured = <<>>

\* assert_golden(name, snapshot) is called
AssertStored ==
    /\ fn_in.op = "assert_golden"
    /\ ~fn_out.done
    /\ fn_out' = [done |-> TRUE,
                  result |-> assert_golden_text(fn_in.name, fn_in.snapshot,
                                                golden_files)]
    /\ UNCHANGED <<flowvars, loggervars, runvars, termvars, agentvars, fn_in, captured, golden_files>>

LoadSpec == LoadInit /\ [][AssertStored]_vars

(* ---------------- parse_readbuffer_ascii ---------------- *)

\* A line of the dump is "data:" followed by text in which the markers
\* SF(...) stand; it is given by the number of plain characters before each
\* of its markers.  A line that does not start with "data:" ("ok", "") has
\* data = FALSE.  The attribute string of a marker plays no part in the
\* positions and lengths and is left out of the fields.
MaxGap == 5
MaxMarkers == 3
MaxDumpLines == 2
NarrowCols == 15
DefaultCols == 80

\* len(match.group(0)) of the shortest text r'SF\(([^)]+)\)' matches, SF(x)
MarkerLen == 5

RECURSIVE SeqsUpTo(_, _)
SeqsUpTo(S, n) ==
    IF n = 0 THEN { <<>> }
    ELSE LET shorter == SeqsUpTo(S, n - 1)
         IN shorter \cup { Append(q, x) : q \in shorter, x \in S }

DataLine(gaps) == [data |-> TRUE, gaps |-> gaps]
StatusLine == [data |-> FALSE, gaps |-> <<>>]

RECURSIVE MarkerCount(_)
MarkerCount(lines) ==
    IF lines = <<>> THEN 0
    ELSE (IF Head(lines).data THEN Len(Head(lines).gaps) ELSE 0)
         + MarkerCount(Tail(lines))

\* the dumps: up to MaxDumpLines data lines holding up to MaxMarkers markers,
\* with or without the closing line "ok"
Dumps ==
    LET DataLines == { DataLine(g) : g \in SeqsUpTo(0..MaxGap, MaxMarkers) }
        Data == { d \in SeqsUpTo(DataLines, MaxDumpLines) :
                    MarkerCount(d) <= MaxMarkers }
    IN Data \cup { Append(d, StatusLine) : d \in Data }
            \cup { <<StatusLine>> \o d : d \in Data }

\* the length of a field closed by the marker at field_end_col of
\* field_end_row
ClosedLen(current_field, field_end_row, field_end_col, cols) ==
    IF field_end_row = current_field.row
    THEN field_end_col - current_field.col
    ELSE (cols - current_field.col + 1)
         + ((field_end_row - current_field.row - 1) * cols)
         + field_end_col

\* the last field, if any, extends to the end of the screen
CloseLastField(st, rows, cols) ==
    IF st.current_field = <<>> THEN st.fields
    ELSE LET current_field == st.current_field[1]
             remaining_on_line == cols - current_field.col + 1
             remaining_lines == rows - current_field.row
         IN Append(st.fields,
                   [current_field EXCEPT
                      !.len = remaining_on_line + (remaining_lines * cols)])

\* the loop over re.finditer: pos is the index in the line after the last
\* match, so that match.start() is pos plus the gap
RECURSIVE ScanMarkers(_, _, _, _, _, _)
ScanMarkers(gaps, pos, col_offset, current_row, st, cols) ==
    IF gaps = <<>> THEN st
    ELSE LET field_start == pos + Head(gaps)
             field_end_col == col_offset + field_start
             fields ==
                 IF st.current_field = <<>> THEN st.fields
                 ELSE Append(st.fields,
                             [st.current_field[1] EXCEPT
                                !.len = ClosedLen(st.current_field[1],
                                                  current_row, field_end_col,
                                                  cols)])
             current_field == [row |-> current_row,
                               col |-> 1 + col_offset + field_start,
                               len |-> 0]
         IN ScanMarkers(Tail(gaps), field_start + MarkerLen,
                        col_offset + MarkerLen, current_row,
                        [fields |-> fields,
                         current_field |-> <<current_field>>], cols)

\* the loop over the lines: a line that is not data is skipped and does not
\* advance current_row
RECURSIVE ParseLines(_, _, _, _)
ParseLines(lines, current_row, st, cols) ==
    IF lines = <<>> THEN st
    ELSE IF ~Head(lines).data
    THEN ParseLines(Tail(lines), current_row, st, cols)
    ELSE ParseLines(Tail(lines), current_row + 1,
                    ScanMarkers(Head(lines).gaps, 0, 0, current_row, st, cols),
                    cols)

parse_readbuffer_ascii(lines, rows, cols) ==
    CloseLastField(ParseLines(lines, 1,
                              [fields |-> <<>>, current_field |-> <<>>], cols),
                   rows, cols)

ParseInit ==
    /\ FlowIdle
    /\ LoggerIdle
    /\ RunIdle
    /\ TermIdle
    /\ AgentIdle
    /\ fn_in \in { [op |-> "parse_readbuffer_ascii", lines |-> d,
                    rows |-> r, cols |-> c] :
                   d \in Dumps, r \in 1..MaxDumpLines,
                   c \in {NarrowCols, DefaultCols} }
    /\ fn_out = NotCalled
    /\ captured = <<>>
    /\ golden_files = EmptyDict

\* parse_readbuffer_ascii(lines, rows, cols) is called
Parse ==
    /\ fn_in.op = "parse_readbuffer_ascii"
    /\ ~fn_out.done
    /\ fn_out' = [done |-> TRUE,
                  result |-> parse_readbuffer_ascii(fn_in.lines, fn_in.rows,
                                                    fn_in.cols)]
    /\ UNCHANGED <<flowvars, loggervars, runvars, termvars, agentvars, fn_in, captured, golden_files>>

ParseSpec == ParseInit /\ [][Parse]_vars

(* ---------------- JSONLLogger._redact_params ---------------- *)

\* most log_action calls
MaxLogs == 1

\* Strings the logger searches are sequences of characters.
IsSubstr(r, str) ==
    \E i \in 1..(Len(str) - Len(r) + 1) : SubSeq(str, i, i + Len(r) - 1) = r

UpperCase == <<"A", "B", "C", "D", "E", "F", "G", "H", "I", "J", "K", "L", "M",
               "N", "O", "P", "Q", "R", "S", "T", "U", "V", "W", "X", "Y", "Z">>
LowerCase == <<"a", "b", "c", "d", "e", "f", "g", "h", "i", "j", "k", "l", "m",
               "n", "o", "p", "q", "r", "s", "t", "u", "v", "w", "x", "y", "z">>

\* str.lower()
Lower(str) ==
    [i \in 1..Len(str) |->
        IF \E u \in 1..26 : UpperCase[u] = str[i]
        THEN LowerCase[CHOOSE u \in 1..26 : UpperCase[u] = str[i]]
        ELSE str[i]]

redact_keys ==
    { <<"p", "w", "d">>,
      <<"p", "a", "s", "s">>,
      <<"p", "a", "s", "s", "w", "o", "r", "d">>,
      <<"p", "i", "n">>,
      <<"s", "e", "c", "r", "e", "t">>,
      <<"k", "e", "y">>,
      <<"t", "o", "k", "e", "n">>,
      <<"c", "r", "e", "d", "e", "n", "t", "i", "a", "l">>,
      <<"a", "u", "t", "h">>,
      <<"a", "p", "i", "_", "k", "e", "y">>,
      <<"p", "r", "i", "v", "a", "t", "e">> }

\* the keys whose string values are kept as usernames
KeepKeys == { <<"u", "s", "e", "r">>, <<"i", "d">> }

RedactedChars == <<"*", "*", "*", "R", "E", "D", "A", "C", "T", "E", "D", "*", "*", "*">>

\* A python value: a str (s), a dict (d), or anything else (an int, a list).
StrV(str) == [t |-> "str", s |-> str, d |-> EmptyDict]
DictV(d) == [t |-> "dict", s |-> <<>>, d |-> d]
IntV == [t |-> "int", s |-> <<>>, d |-> EmptyDict]

\* any(r in text.lower() for r in words)
AnyIn(words, text) == \E r \in words : IsSubstr(r, Lower(text))

\* the branch of _redact_params for a str value under a key that is not
\* sensitive
RedactStr(key, value) ==
    IF Len(value.s) > 4 /\ AnyIn(KeepKeys, key) THEN value
    ELSE IF AnyIn(redact_keys, value.s) THEN StrV(RedactedChars)
    ELSE value

RECURSIVE _redact_params(_)
_redact_params(params) ==
    IF DOMAIN params = {} THEN EmptyDict
    ELSE [ key \in DOMAIN params |->
             IF AnyIn(redact_keys, key) THEN StrV(RedactedChars)
             ELSE IF params[key].t = "dict"
                  THEN DictV(_redact_params(params[key].d))
             ELSE IF params[key].t = "str" THEN RedactStr(key, params[key])
             ELSE params[key] ]

ParamKeys == { <<"u", "s", "e", "r">>,
      <<"u", "i", "d">>,
      <<"t", "e", "x", "t">>,
      <<"p", "a", "s", "s", "w", "o", "r", "d">>,
      <<"A", "P", "I", "_", "K", "E", "Y">> }
ParamValues == { StrV(<<"h", "u", "n", "t", "e", "r", "2">>),
      StrV(<<"p", "a", "s", "s", "1">>),
      StrV(<<"p", "i", "n">>),
      StrV(<<"I", "B", "M", "U", "S", "E", "R">>),
      StrV(<<"T", "o", "k", "e", "n", "-", "9">>),
      IntV }

Dict1(k, v) == [x \in {k} |-> v]

\* the params log_action is called with: one entry, two entries, or one
\* entry nested in a dict under a plain or a sensitive key
ParamDicts ==
    { Dict1(k, v) : k \in ParamKeys, v \in ParamValues }
    \cup { [x \in {<<"u", "s", "e", "r">>, <<"t", "e", "x", "t">>} |->
              IF x = <<"u", "s", "e", "r">> THEN v1 ELSE v2] :
           v1, v2 \in ParamValues }
    \cup { Dict1(w, DictV(Dict1(k, v))) :
              w \in {<<"a", "r", "g", "s">>, <<"a", "u", "t", "h">>},
              k \in ParamKeys, v \in ParamValues }
    \cup { EmptyDict, Dict1(<<"a", "r", "g", "s">>, DictV(EmptyDict)) }

\* log_action: the entry written, its params redacted
LogAction ==
    /\ Len(jsonl) < MaxLogs
    /\ \E p \in ParamDicts :
          /\ jsonl' = Append(jsonl, [tool |-> "fill",
                                     params_redacted |-> _redact_params(p)])
          /\ logged' = Append(logged, p)
    /\ UNCHANGED <<flowvars, runvars, purevars, termvars, agentvars>>

RedactInit ==
    /\ FlowIdle
    /\ OutsideInit

RedactSpec == RedactInit /\ [][LogAction]_vars

(* ---------------- get_field_at_label, S3270Session.fill_by_label ---------------- *)

MaxBodyLen == 2
MaxScreenLines == 2
MaxOffset == 3

\* the width fill_by_label wraps at
BridgeCols == 80

BodyChars == {"a", "L"}
Labels == { <<"L">>, <<"a">>, <<"L", "a">> }

\* what s3270 answers to Ascii and Snap(Ascii): a line "data:" + body for
\* every row of the screen, then "ok"
DataPrefix == <<"d", "a", "t", "a", ":">>
OkLine == <<"o", "k">>
AsciiResponse(bodies) ==
    [i \in 1..Len(bodies) |-> DataPrefix \o bodies[i]] \o <<OkLine>>

\* the screens: the bodies of their rows
LabelScreens ==
    SeqsUpTo(SeqsUpTo(BodyChars, MaxBodyLen), MaxScreenLines) \ { <<>> }

\* offsets up to MaxOffset, and those that bring the column to a multiple of
\* a screen width or just past it
LabelOffsets ==
    { o \in { k * w + j - MaxOffset : w \in {NarrowCols, DefaultCols},
                                      k \in 0..3, j \in 0..(2 * MaxOffset) } :
        o >= 0 }

\* line.startswith("data:")
StartsWithData(line) ==
    Len(line) >= Len(DataPrefix) /\ SubSeq(line, 1, Len(DataPrefix)) = DataPrefix

\* the ascii of S3270Session.snapshot: line[5:] of the lines that start with
\* "data:", joined by "\n"
SnapshotAscii(response) ==
    LET RECURSIVE Data(_)
        Data(ls) ==
            IF ls = <<>> THEN <<>>
            ELSE IF StartsWithData(Head(ls))
            THEN <<SubSeq(Head(ls), Len(DataPrefix) + 1, Len(Head(ls)))>>
                 \o Data(Tail(ls))
            ELSE Data(Tail(ls))
    IN JoinLines(Data(response))

\* line.index(label), from 0
IndexOf(label, line) ==
    (CHOOSE i \in 1..(Len(line) - Len(label) + 1) :
        /\ SubSeq(line, i, i + Len(label) - 1) = label
        /\ \A j \in 1..(i - 1) : SubSeq(line, j, j + Len(label) - 1) # label) - 1

\* the lines (from 1) that contain the label
LinesWith(label, lines) ==
    { i \in 1..Len(lines) : IsSubstr(label, lines[i]) }

FirstLineWith(label, lines) ==
    CHOOSE i \in LinesWith(label, lines) :
        \A j \in LinesWith(label, lines) : i <= j

\* (mutant) one wrap at most
WrapOnce(field_row, field_col, cols) ==
    IF field_col > cols
    THEN [row |-> field_row + 1, col |-> field_col - cols, found |-> TRUE]
    ELSE [row |-> field_row, col |-> field_col, found |-> TRUE]

\* while field_col > cols: field_row += 1; field_col -= cols
RECURSIVE Wrap(_, _, _)
Wrap(field_row, field_col, cols) ==
    IF field_col > cols THEN Wrap(field_row + 1, field_col - cols, cols)
    ELSE [row |-> field_row, col |-> field_col, found |-> TRUE]

get_field_at_label(snapshot, label, offset) ==
    LET lines == SplitLines(snapshot.ascii)
    IN IF LinesWith(label, lines) = {} THEN [found |-> FALSE]
       ELSE LET row == FirstLineWith(label, lines)
                field_col == IndexOf(label, lines[row]) + Len(label) + offset
            IN Wrap(row, field_col, snapshot.cols)

\* S3270Session.fill_by_label searches the lines of the response as they
\* came; the result is whether the label was found and the commands sent
S3270Session_fill_by_label(response, label, offset) ==
    IF LinesWith(label, response) = {} THEN [found |-> FALSE, sent |-> <<>>]
    ELSE LET i == FirstLineWith(label, response)
             col_pos == IndexOf(label, response[i]) + Len(label) + offset
             row_pos == i
             at == IF col_pos > BridgeCols
                   THEN [row |-> row_pos + (col_pos \div BridgeCols),
                         col |-> col_pos % BridgeCols]
                   ELSE [row |-> row_pos, col |-> col_pos]
         IN [found |-> TRUE,
             sent |-> << [cmd |-> "MoveCursor", row |-> at.row, col |-> at.col],
                         [cmd |-> "String", row |-> at.row, col |-> at.col] >>]

NoLabelCall == [done |-> FALSE, result |-> [field |-> <<>>, typed |-> <<>>]]

LabelInit ==
    /\ FlowIdle
    /\ LoggerIdle
    /\ RunIdle
    /\ TermIdle
    /\ AgentIdle
    /\ fn_in \in { [op |-> "label", response |-> AsciiResponse(b),
                    label |-> l, offset |-> o, cols |-> c] :
                   b \in LabelScreens, l \in Labels, o \in LabelOffsets,
                   c \in {NarrowCols, DefaultCols} }
    /\ fn_out = NoLabelCall
    /\ captured = <<>>
    /\ golden_files = EmptyDict

\* get_field_at_label(snapshot, label, offset) on the snapshot of the screen
GetFieldAtLabel ==
    /\ fn_in.op = "label"
    /\ fn_out.result.field = <<>>
    /\ LET snapshot == [ascii |-> SnapshotAscii(fn_in.response),
                        cols |-> fn_in.cols]
       IN fn_out' = [done |-> TRUE,
                     result |-> [fn_out.result EXCEPT
                        !.field = <<get_field_at_label(snapshot, fn_in.label,
                                                       fn_in.offset)>>]]
    /\ UNCHANGED <<flowvars, loggervars, runvars, termvars, agentvars, fn_in, captured, golden_files>>

\* POST /fill_by_label: session.fill_by_label(label, offset, value)
FillByLabel ==
    /\ fn_in.op = "label"
    /\ fn_out.result.typed = <<>>
    /\ fn_out' = [done |-> TRUE,
                  result |-> [fn_out.result EXCEPT
                     !.typed = <<S3270Session_fill_by_label(fn_in.response,
                                     fn_in.label, fn_in.offset)>>]]
    /\ UNCHANGED <<flowvars, loggervars, runvars, termvars, agentvars, fn_in, captured, golden_files>>

LabelNext == GetFieldAtLabel \/ FillByLabel

LabelSpec == LabelInit /\ [][LabelNext]_vars

(* ---------------- wait_ready, wait_change, sleep_ms in time ---------------- *)

\* Time is counted in ticks of 100 ms, the time.sleep(0.1) of the two loops.
\* MaxTimeout is the longest timeout_ms (and sleep) of a step, MaxDelay the
\* longest a request to the bridge takes to return.
MaxTimeout == 2
MaxDelay == 1

Screens == { sn.ascii : sn \in Snapshots }

\* GET /screen while the terminal shows text
SnapshotOf(text) == CHOOSE sn \in Snapshots : sn.ascii = text

TimedSteps == {"wait_ready", "wait_change", "sleep_ms"}

\* a loop in progress: at_call (the screen when the step was called) and
\* seen (the digests of the snapshots taken so far) are history
Loop(type, timeout, initial_digest, at_call) ==
    [type |-> type, timeout |-> timeout, elapsed |-> 0,
     initial |-> initial_digest, at_call |-> at_call, seen |-> {},
     result |-> "running"]

InLoop(type) ==
    /\ wait # NoWait
    /\ wait.type = type
    /\ wait.result = "running"

\* (mutant) the time elapsed starts over when it reaches the timeout
ClockWraps(w, delay) == [w EXCEPT !.elapsed = (@ + delay + 1) % w.timeout]

\* the request has taken delay, then time.sleep(0.1)
Sleep(w, delay) == [w EXCEPT !.elapsed = @ + delay + 1]

WaitInit ==
    /\ FlowIdle
    /\ LoggerIdle
    /\ RunIdle
    /\ PureIdle
    /\ screen \in Screens
    /\ sent = <<>>
    /\ AgentIdle

\* the host repaints the terminal
ScreenChanges ==
    /\ screen' \in Screens \ {screen}
    /\ UNCHANGED <<flowvars, loggervars, runvars, purevars, sent, agentvars>>

\* get_screen, from a step that takes a snapshot
GetScreen ==
    /\ wait = NoWait
    /\ cur' = SnapshotOf(screen).digest
    /\ UNCHANGED <<root, env_vars, save_goldens_flag, transcript, goldens,
                   fails, driver, status, stack, wait, trace, calls, outside>>

\* execute_step on a wait_ready, wait_change or sleep_ms step
CallTimed ==
    /\ wait = NoWait
    /\ \E type \in TimedSteps, timeout \in 0..MaxTimeout :
          wait' = Loop(type, timeout,
                       IF type = "wait_change" THEN cur ELSE None, screen)
    /\ UNCHANGED <<root, env_vars, save_goldens_flag, transcript, cur, goldens,
                   fails, driver, status, stack, trace, calls, outside>>

\* wait_change: the loop condition and one turn of the loop
PollChange ==
    /\ InLoop("wait_change")
    /\ IF wait.elapsed >= wait.timeout
       THEN /\ wait' = [wait EXCEPT !.result = "False"]
            /\ UNCHANGED cur
       ELSE \/ \* get_screen raises: the except of execute_step
               /\ wait' = [wait EXCEPT !.result = "raise"]
               /\ UNCHANGED cur
            \/ LET snapshot == SnapshotOf(screen)
                   w == [wait EXCEPT !.seen = @ \cup {snapshot.digest}]
               IN /\ cur' = snapshot.digest
                  /\ IF snapshot.digest # wait.initial
                     THEN wait' = [w EXCEPT !.result = "True"]
                     ELSE \E delay \in 0..MaxDelay : wait' = Sleep(w, delay)
    /\ UNCHANGED <<root, env_vars, save_goldens_flag, transcript, goldens,
                   fails, driver, status, stack, trace, calls, outside>>

\* wait_ready: the loop condition and one turn of the loop
PollReady ==
    /\ InLoop("wait_ready")
    /\ IF wait.elapsed >= wait.timeout
       THEN wait' = [wait EXCEPT !.result = "False"]
       ELSE \/ \* status.get('connected')
               wait' = [wait EXCEPT !.result = "True"]
            \/ \* not connected, or the request raised: except: pass
               \E delay \in 0..MaxDelay : wait' = Sleep(wait, delay)
    /\ UNCHANGED <<root, env_vars, save_goldens_flag, transcript, cur, goldens,
                   fails, driver, status, stack, trace, calls, outside>>

\* sleep_ms: time.sleep(ms / 1000.0) returns
Wake ==
    /\ InLoop("sleep_ms")
    /\ wait' = [wait EXCEPT !.elapsed = wait.timeout, !.result = "True"]
    /\ UNCHANGED <<root, env_vars, save_goldens_flag, transcript, cur, goldens,
                   fails, driver, status, stack, trace, calls, outside>>

\* execute_step returns
ReturnTimed ==
    /\ wait # NoWait
    /\ wait.result # "running"
    /\ wait' = NoWait
    /\ UNCHANGED <<root, env_vars, save_goldens_flag, transcript, cur, goldens,
                   fails, driver, status, stack, trace, calls, outside>>

WaitNext ==
    \/ ScreenChanges
    \/ GetScreen
    \/ CallTimed
    \/ PollChange
    \/ PollReady
    \/ Wake
    \/ ReturnTimed

WaitSpec == WaitInit /\ [][WaitNext]_vars

\* the runner's thread keeps running: a loop that can take a turn takes it
WaitLiveSpec ==
    /\ WaitSpec
    /\ WF_vars(PollChange)
    /\ WF_vars(PollReady)
    /\ WF_vars(Wake)

(* ---------------- the bridge: connect, actions, reset, press ---------------- *)

\* The commands written to s3270, the hosts and the key names are strings,
\* given by their characters.
MaxCommands == 3

StartsWith(str, prefix) ==
    /\ Len(prefix) <= Len(str)
    /\ SubSeq(str, 1, Len(prefix)) = prefix

\* str.upper()
Upper(str) ==
    [i \in 1..Len(str) |->
        IF \E u \in 1..26 : LowerCase[u] = str[i]
        THEN UpperCase[CHOOSE u \in 1..26 : LowerCase[u] = str[i]]
        ELSE str[i]]

DigitChars == <<"0", "1", "2", "3", "4", "5", "6", "7", "8", "9">>

\* f"{i}"
RECURSIVE Decimal(_)
Decimal(i) ==
    IF i < 10 THEN <<DigitChars[i + 1]>>
    ELSE Decimal(i \div 10) \o <<DigitChars[(i % 10) + 1]>>

\* f"{name}({arg})"
Call(name, arg) == name \o <<"(">> \o arg \o <<")">>

Str_Connect == <<"C", "o", "n", "n", "e", "c", "t">>
Str_Wait == <<"W", "a", "i", "t">>
Str_InputField == <<"I", "n", "p", "u", "t", "F", "i", "e", "l", "d">>
Str_Disconnect == <<"D", "i", "s", "c", "o", "n", "n", "e", "c", "t">>
Str_Enter == <<"E", "n", "t", "e", "r">>
Str_Clear == <<"C", "l", "e", "a", "r">>
Str_PF == <<"P", "F">>
Str_PA == <<"P", "A">>
Str_Quit == <<"Q", "u", "i", "t">>
Str_enter == <<"e", "n", "t", "e", "r">>
Str_Tab == <<"T", "a", "b">>

Loopback == <<"1", "2", "7", ".", "0", ".", "0", ".", "1">>
Localhost == <<"l", "o", "c", "a", "l", "h", "o", "s", "t">>
Port3270 == <<":", "3", "2", "7", "0">>

\* the hosts a request names: the emulator's own, localhost, a host of a
\* private network, and a name of the domain "a" that starts with 127.0.0.1
LocalHost1 == Loopback \o Port3270
LocalHost2 == Localhost \o Port3270
RemoteHost1 == <<"1", "0", ".", "0", ".", "0", ".", "5", ":", "2", "3">>
RemoteHost2 == Loopback \o <<".", "a", ":", "2", "3">>
Hosts == { LocalHost1, LocalHost2, RemoteHost1, RemoteHost2 }

ALLOWED_ACTIONS ==
    << <<"W", "a", "i", "t", "(", "3", "2", "7", "0", ")">>,
       <<"W", "a", "i", "t", "(", "I", "n", "p", "u", "t", "F", "i", "e", "l", "d", ")">>,
       <<"A", "s", "c", "i", "i", "(", ")">>,
       <<"R", "e", "a", "d", "B", "u", "f", "f", "e", "r", "(", "A", "s", "c", "i", "i", ")">>,
       <<"Q", "u", "e", "r", "y">>,
       <<"M", "o", "v", "e", "C", "u", "r", "s", "o", "r">>,
       <<"S", "t", "r", "i", "n", "g">>,
       <<"E", "n", "t", "e", "r">>,
       <<"P", "F">>,
       <<"P", "A">>,
       <<"C", "l", "e", "a", "r">>,
       <<"D", "i", "s", "c", "o", "n", "n", "e", "c", "t">>,
       <<"C", "o", "n", "n", "e", "c", "t">> >>

validate_action(action) ==
    \E k \in 1..Len(ALLOWED_ACTIONS) : StartsWith(action, ALLOWED_ACTIONS[k])

\* the raw actions a request to /actions lists
RawActions ==
    { Call(Str_Connect, h) : h \in {LocalHost1, RemoteHost1} }
        \cup { Str_Enter, Str_Quit }

ActionLists == { <<a>> : a \in RawActions }
                  \cup { <<a, b>> : a \in {Str_Enter, Str_Quit}, b \in RawActions }

\* the key names a press request gives
PFKey(i) == Str_PF \o Decimal(i)
PAKey(i) == Str_PA \o Decimal(i)
KeyNames ==
    { Str_Enter, Str_Clear, Str_enter, Str_Tab, Str_PF }
        \cup { PFKey(i) : i \in {1, 12, 13, 24, 25} }
        \cup { PAKey(i) : i \in {1, 3, 4} }

\* what a request answers: its status and the commands it wrote to s3270
Reply(code, commands) == [status |-> code, commands |-> commands]

\* S3270Session.connect; connected is last_status.connection_state == "C"
S3270Session_connect(host, connected) ==
    IF ~(StartsWith(host, Loopback \o <<":">>) \/ StartsWith(host, Localhost \o <<":">>))
    THEN Reply("ValueError", <<>>)
    ELSE IF connected
    THEN Reply("True", << Call(Str_Connect, host),
                          Call(Str_Wait, Str_InputField) >>)
    ELSE Reply("False", << Call(Str_Connect, host) >>)

\* POST /connect, without the snapshot it ends with
api_connect(host) ==
    IF ~StartsWith(host, Loopback)
    THEN Reply("403", <<>>)
    ELSE Reply("200", << Call(Str_Connect, host),
                         Call(Str_Wait, Str_InputField) >>)

\* POST /actions
api_execute_actions(actions, validate) ==
    IF validate /\ \E k \in 1..Len(actions) : ~validate_action(actions[k])
    THEN Reply("403", <<>>)
    ELSE Reply("200", actions)

\* POST /reset_session; connected is session.connected, in S3270Session.stop
api_reset_session(connected) ==
    Reply("200", << Call(Str_Disconnect, <<>>) >>
                 \o (IF connected THEN <<Str_Disconnect>> ELSE <<>>)
                 \o << Call(Str_Connect, LocalHost1),
                       Call(Str_Wait, Str_InputField) >>)

\* S3270Session.press
S3270Session_press(aid) ==
    IF Upper(aid) = Upper(Str_Enter) THEN Reply("ok", <<Str_Enter>>)
    ELSE IF StartsWith(Upper(aid), Str_PF)
    THEN Reply("ok", << Call(Str_PF, SubSeq(aid, 3, Len(aid))) >>)
    ELSE IF StartsWith(Upper(aid), Str_PA)
    THEN Reply("ok", << Call(Str_PA, SubSeq(aid, 3, Len(aid))) >>)
    ELSE IF Upper(aid) = Upper(Str_Clear) THEN Reply("ok", <<Str_Clear>>)
    ELSE Reply("ValueError", <<>>)

\* valid_keys of POST /press
valid_keys ==
    {Str_Enter, Str_Clear} \cup { PFKey(i) : i \in 1..12 }
                           \cup { PAKey(i) : i \in 1..3 }

\* POST /press, without the snapshot it ends with
api_press(key_to_press) ==
    IF key_to_press \notin valid_keys THEN Reply("400", <<>>)
    ELSE Reply("200", << Call(key_to_press, <<>>) >>)

BridgeInit ==
    /\ FlowIdle
    /\ LoggerIdle
    /\ RunIdle
    /\ PureIdle
    /\ screen = "any"
    /\ sent = <<>>
    /\ AgentIdle

\* a request is served: reply is its answer
Serve(request, reply) ==
    /\ Len(sent) < MaxCommands
    /\ fn_in' = request
    /\ fn_out' = [done |-> TRUE, result |-> reply]
    /\ sent' = sent \o reply.commands

ApiConnect ==
    /\ \E host \in Hosts :
            Serve([op |-> "POST /connect", host |-> host], api_connect(host))
    /\ UNCHANGED <<flowvars, loggervars, runvars, captured, golden_files, screen, agentvars>>

SessionConnect ==
    /\ \E host \in Hosts, connected \in BOOLEAN :
            Serve([op |-> "S3270Session.connect", host |-> host],
                  S3270Session_connect(host, connected))
    /\ UNCHANGED <<flowvars, loggervars, runvars, captured, golden_files, screen, agentvars>>

ApiActions ==
    /\ \E actions \in ActionLists, validate \in BOOLEAN :
            Serve([op |-> "POST /actions", actions |-> actions,
                   validate |-> validate],
                  api_execute_actions(actions, validate))
    /\ UNCHANGED <<flowvars, loggervars, runvars, captured, golden_files, screen, agentvars>>

ApiReset ==
    /\ \E connected \in BOOLEAN :
            Serve([op |-> "POST /reset_session"], api_reset_session(connected))
    /\ UNCHANGED <<flowvars, loggervars, runvars, captured, golden_files, screen, agentvars>>

ApiPress ==
    /\ \E key \in KeyNames :
            Serve([op |-> "POST /press", key |-> key], api_press(key))
    /\ UNCHANGED <<flowvars, loggervars, runvars, captured, golden_files, screen, agentvars>>

SessionPress ==
    /\ \E aid \in KeyNames :
            Serve([op |-> "S3270Session.press", key |-> aid],
                  S3270Session_press(aid))
    /\ UNCHANGED <<flowvars, loggervars, runvars, captured, golden_files, screen, agentvars>>

BridgeNext ==
    \/ ApiConnect
    \/ SessionConnect
    \/ ApiActions
    \/ ApiReset
    \/ ApiPress
    \/ SessionPress

BridgeSpec == BridgeInit /\ [][BridgeNext]_vars

(* ---------------- the fill_by_label step, through api.py ---------------- *)

\* POST /fill_by_label of api.py: 400 when the session is not connected,
\* 500 when session.fill_by_label raises, else 200 with a body whose status
\* is ok or error
api_fill_by_label(connected, raises, response, label, offset) ==
    IF ~connected THEN [status |-> "400", body |-> "Not connected", commands |-> <<>>]
    ELSE IF raises THEN [status |-> "500", body |-> "raise", commands |-> <<>>]
    ELSE LET success == S3270Session_fill_by_label(response, label, offset)
         IN IF success.found
            THEN [status |-> "200", body |-> "ok", commands |-> success.sent]
            ELSE [status |-> "200", body |-> "error", commands |-> <<>>]

\* FlowRunner.fill_by_label: response.status_code == 200
StatusIs200(reply) == reply.status = "200"

FillInit ==
    /\ FlowIdle
    /\ LoggerIdle
    /\ RunIdle
    /\ fn_in \in { [op |-> "fill_by_label", response |-> AsciiResponse(b),
                    label |-> l, offset |-> o, connected |-> c, raises |-> r] :
                   b \in LabelScreens, l \in Labels, o \in 0..MaxOffset,
                   c \in BOOLEAN, r \in BOOLEAN }
    /\ fn_out = NotCalled
    /\ captured = <<>>
    /\ golden_files = EmptyDict
    /\ screen = "any"
    /\ sent = <<>>
    /\ AgentIdle

\* a fill_by_label step: the runner posts to the bridge, which types
FillByLabelStep ==
    /\ fn_in.op = "fill_by_label"
    /\ ~fn_out.done
    /\ LET reply == api_fill_by_label(fn_in.connected, fn_in.raises,
                                      fn_in.response, fn_in.label,
                                      fn_in.offset)
       IN /\ fn_out' = [done |-> TRUE,
                        result |-> [success |-> StatusIs200(reply),
                                    reply |-> reply]]
          /\ sent' = sent \o reply.commands
    /\ UNCHANGED <<flowvars, loggervars, runvars, fn_in, captured, golden_files,
                   screen, agentvars>>

FillSpec == FillInit /\ [][FillByLabelStep]_vars

(* ---------------- the replay harness ---------------- *)

\* the most records a replayed transcript holds
MaxRecords == 2

\* hashlib.sha256(text.encode()).hexdigest()[:16]
Sha256_16(text) == [sha256_16 |-> text]

\* golden.get("digest", "").startswith(digest), digest a 16-character prefix
DigestStartsWith(full, digest) == digest = Sha256_16(full.sha256)

GoldenScreen(text) == [ascii |-> text, digest |-> Sha256(text)]

\* the golden directories replay is given: none, or screens by name
GoldenDirs ==
    { EmptyDict,
      [n \in {"initial", "ready"} |->
          IF n = "initial" THEN GoldenScreen("LOGON") ELSE GoldenScreen("READY")],
      [n \in {"next"} |-> GoldenScreen("NEXT")] }

\* the records of a transcript: the tool, the recorded outcome and, in some,
\* the recorded digest_after; press is press {key: Enter}
Records ==
    [tool : {"connect", "screen", "press"}, outcome : {"success", "error"}]
    \cup [tool : {"connect", "screen", "press"}, outcome : {"success", "error"},
          digest_after : {Sha256_16("LOGON"), Sha256_16("READY")}]

Transcripts == UNION { [1..n -> Records] : n \in 0..MaxRecords }

\* MockBridge.__init__ with its transcript and goldens loaded
MockBridge(steps, golden_screens) ==
    [transcript |-> steps, golden_screens |-> golden_screens,
     current_step |-> 0, current_screen |-> None]

\* MockBridge.connect: the bridge after it (the dict it returns is truthy
\* and has no "ascii")
MockBridge_connect(b) ==
    [b EXCEPT !.current_screen =
        IF "initial" \in DOMAIN b.golden_screens
        THEN b.golden_screens["initial"].ascii
        ELSE "MOCK: Connected to 127.0.0.1:3270"]

\* MockBridge.get_screen: the bridge after it; the screen of the golden whose
\* digest starts with the digest_after of the record at current_step
MockBridge_get_screen(b) ==
    IF b.current_step < Len(b.transcript)
    THEN LET step == b.transcript[b.current_step + 1]
             hits == { n \in DOMAIN b.golden_screens :
                          DigestStartsWith(b.golden_screens[n].digest,
                                           step.digest_after) }
         IN IF "digest_after" \in DOMAIN step /\ hits # {}
            THEN [b EXCEPT !.current_screen =
                     b.golden_screens[CHOOSE n \in hits : TRUE].ascii]
            ELSE b
    ELSE b

\* the "ascii" of the dict get_screen returns
ScreenAscii(b) ==
    IF b.current_screen = None THEN "MOCK SCREEN" ELSE b.current_screen

\* MockBridge.execute_action("press", {key: Enter}): "LOGON" in
\* self.current_screen raises TypeError while current_screen is None
MockBridge_execute_action(b) ==
    LET b1 == [b EXCEPT !.current_step = @ + 1]
    IN IF b.current_screen = None THEN [b1 EXCEPT !.current_screen = "raise"]
       ELSE IF b.current_screen = "LOGON" /\ "ready" \in DOMAIN b.golden_screens
       THEN [b1 EXCEPT !.current_screen = b.golden_screens["ready"].ascii]
       ELSE IF "next" \in DOMAIN b.golden_screens
       THEN [b1 EXCEPT !.current_screen = b.golden_screens["next"].ascii]
       ELSE b1

\* One turn of the loop of replay_transcript on record i: the bridge, the
\* error count and the differences after it. Every result the mock returns
\* is a non-empty dict, so the actual outcome is always "success".
ReplayRecord(r, i, step) ==
    LET b == CASE step.tool = "connect" -> MockBridge_connect(r.bridge)
               [] step.tool = "screen" -> MockBridge_get_screen(r.bridge)
               [] OTHER -> MockBridge_execute_action(r.bridge)
        actual_outcome == "success"
        outcome_diff ==
            IF actual_outcome = step.outcome THEN <<>>
            ELSE << [step |-> i, tool |-> step.tool,
                     expected |-> step.outcome, actual |-> actual_outcome] >>
        has_ascii == step.tool = "screen"
        actual_digest == Sha256_16(ScreenAscii(b))
        digest_diff ==
            IF "digest_after" \in DOMAIN step /\ has_ascii
                  /\ actual_digest # step.digest_after
            THEN << [step |-> i, type |-> "digest",
                     expected |-> step.digest_after, actual |-> actual_digest] >>
            ELSE <<>>
    IN IF b.current_screen = "raise"
       THEN [r EXCEPT !.raised = TRUE]
       ELSE [bridge |-> b,
             success_count |-> r.success_count
                                  + (IF outcome_diff = <<>> THEN 1 ELSE 0),
             error_count |-> r.error_count
                                + (IF outcome_diff = <<>> THEN 0 ELSE 1),
             differences |-> r.differences \o outcome_diff \o digest_diff,
             raised |-> FALSE]

RECURSIVE ReplayFrom(_, _, _)
ReplayFrom(r, i, steps) ==
    IF i > Len(steps) \/ r.raised THEN r
    ELSE ReplayFrom(ReplayRecord(r, i, steps[i]), i + 1, steps)

\* ReplayHarness.replay_transcript on a new harness: what it returns (True,
\* False, or an exception) and self.differences after it
replay_transcript(steps, golden_screens) ==
    LET r == ReplayFrom([bridge |-> MockBridge(steps, golden_screens),
                         success_count |-> 0, error_count |-> 0,
                         differences |-> <<>>, raised |-> FALSE],
                        1, steps)
    IN [returns |-> IF r.raised THEN "raise"
                    ELSE IF r.error_count = 0 THEN "True" ELSE "False",
        differences |-> r.differences]

ReplayInit ==
    /\ FlowIdle
    /\ LoggerIdle
    /\ RunIdle
    /\ TermIdle
    /\ AgentIdle
    /\ fn_in \in { [op |-> "replay", steps |-> t, golden_screens |-> g] :
                   t \in Transcripts, g \in GoldenDirs }
    /\ fn_out = NotCalled
    /\ captured = <<>>
    /\ golden_files = EmptyDict

Replay ==
    /\ fn_in.op = "replay"
    /\ ~fn_out.done
    /\ fn_out' = [done |-> TRUE,
                  result |-> replay_transcript(fn_in.steps, fn_in.golden_screens)]
    /\ UNCHANGED <<flowvars, loggervars, runvars, termvars, agentvars, fn_in, captured,
                   golden_files>>

ReplaySpec == ReplayInit /\ [][Replay]_vars

(* ---------------- the command queue ---------------- *)

\* the commands the controller sends, the seconds the clock runs, the times
\* the controller process is started again
MaxSends == 3
MaxClock == 1
MaxRestarts == 1

\* f"cmd_{timestamp}_{sequence:04d}.json": both fields have a fixed width, so
\* sorted() orders the names as the pairs
CmdName(timestamp, sequence) == <<timestamp, sequence>>
NameBefore(a, b) == a[1] < b[1] \/ (a[1] = b[1] /\ a[2] < b[2])

\* open(filepath, 'w'): a file of that name is replaced
WriteFile(files, f) == { g \in files : g.name # f.name } \cup {f}

\* ClaudeCodeController._send_command: the sequence it now has and the file
\* it writes; id numbers the commands in the order they are submitted
\* (history, not in the file)
send_command(sequence, action, timestamp, id) ==
    [sequence |-> sequence + 1,
     file |-> [name |-> CmdName(timestamp, sequence + 1), action |-> action,
               sequence |-> sequence + 1, id |-> id]]

\* CommandQueue.pop: the first of the sorted cmd_ files
pop(cmds) == CHOOSE f \in cmds : \A g \in cmds \ {f} : NameBefore(f.name, g.name)

CommandActions == {"screen", "stop", "dance"}

\* TN3270Bridge._request: the body as JSON, {} when the response has no
\* content, {"error": ...} on a RequestException
BridgeReplies == { [ascii |-> "LOGON"], EmptyDict, [error |-> "ConnectionError"] }

\* MainframeAgent._process_command
process_command(action, reply) ==
    CASE action = "screen" -> reply
      [] action = "stop" -> [status |-> "stopped"]
      [] OTHER -> [error |-> "Unknown action"]

\* bool(result) of a dict
Truthy(result) == DOMAIN result # {}

\* the file result_{sequence:04d}.json written; id is the command it was
\* written for (history)
WriteResult(results, sequence, result, id) ==
    [s \in DOMAIN results \cup {sequence} |->
        IF s = sequence THEN [content |-> result, id |-> id] ELSE results[s]]

\* result_file.unlink()
Unlink(results, sequence) == [s \in DOMAIN results \ {sequence} |-> results[s]]

QueueInit ==
    /\ FlowIdle
    /\ LoggerIdle
    /\ RunIdle
    /\ PureIdle
    /\ TermIdle
    /\ AgentIdle

\* datetime.now() moves to the next second
Tick ==
    /\ now < MaxClock
    /\ now' = now + 1
    /\ UNCHANGED <<flowvars, loggervars, runvars, purevars, termvars,
                   command_dir, controller, monitor_log>>

\* a method of the controller: _send_command, then it waits for the result
\* of self.sequence
SendCommand ==
    /\ controller.waiting = 0
    /\ controller.sends < MaxSends
    /\ \E action \in CommandActions :
          LET c == send_command(controller.sequence, action, now,
                                controller.sends + 1)
          IN /\ command_dir' = [command_dir EXCEPT !.cmds = WriteFile(@, c.file)]
             /\ controller' = [controller EXCEPT !.sequence = c.sequence,
                                                 !.waiting = c.sequence,
                                                 !.asked = c.file.id,
                                                 !.sends = c.file.id]
    /\ UNCHANGED <<flowvars, loggervars, runvars, purevars, termvars,
                   monitor_log, now>>

\* _wait_for_result: the result file exists; it is read, removed, returned
WaitReturns ==
    /\ controller.waiting # 0
    /\ controller.waiting \in DOMAIN command_dir.results
    /\ controller' = [controller EXCEPT
          !.waiting = 0,
          !.returned = Append(@, [id |-> controller.asked, timeout |-> FALSE,
                                  result |-> command_dir.results[controller.waiting]])]
    /\ command_dir' = [command_dir EXCEPT !.results = Unlink(@, controller.waiting)]
    /\ UNCHANGED <<flowvars, loggervars, runvars, purevars, termvars,
                   monitor_log, now>>

\* _wait_for_result: the timeout passes with no result file; None
WaitTimesOut ==
    /\ controller.waiting # 0
    /\ controller.waiting \notin DOMAIN command_dir.results
    /\ controller' = [controller EXCEPT
          !.waiting = 0,
          !.returned = Append(@, [id |-> controller.asked, timeout |-> TRUE,
                                  result |-> [content |-> EmptyDict, id |-> 0]])]
    /\ UNCHANGED <<flowvars, loggervars, runvars, purevars, termvars,
                   command_dir, monitor_log, now>>

\* the controller process ends and a new ClaudeCodeController is made on the
\* same command directory: __init__ sets sequence to 0
Restart ==
    /\ controller.restarts < MaxRestarts
    /\ controller.sends > 0
    /\ controller' = [controller EXCEPT !.sequence = 0, !.waiting = 0,
                                        !.restarts = @ + 1]
    /\ UNCHANGED <<flowvars, loggervars, runvars, purevars, termvars,
                   command_dir, monitor_log, now>>

\* one turn of the loop of _monitor_commands with a command in the queue:
\* pop moves the file to processed/, the command is processed, and the
\* result is written if it is truthy
MonitorTurn ==
    /\ command_dir.cmds # {}
    /\ LET command == pop(command_dir.cmds)
       IN \E reply \in BridgeReplies :
             LET result == process_command(command.action, reply)
             IN /\ command_dir' =
                      [cmds |-> command_dir.cmds \ {command},
                       processed |-> command_dir.processed \cup {command.name},
                       results |-> IF Truthy(result)
                                   THEN WriteResult(command_dir.results,
                                                    command.sequence, result,
                                                    command.id)
                                   ELSE command_dir.results]
                /\ monitor_log' = Append(monitor_log,
                      [id |-> command.id, wrote |-> Truthy(result)])
    /\ UNCHANGED <<flowvars, loggervars, runvars, purevars, termvars,
                   controller, now>>

QueueNext ==
    \/ Tick
    \/ SendCommand
    \/ WaitReturns
    \/ WaitTimesOut
    \/ Restart
    \/ MonitorTurn

\* The controller and the agent's monitor thread on one command directory.
QueueSpec == QueueInit /\ [][QueueNext]_vars

(* ---------------- S3270Session.send_text ---------------- *)

\* the longest text typed
MaxTextLen == 4

\* texts of double quotes, backslashes and an ordinary character
TypedTexts == UNION { [1..n -> {"\"", "\\", "a"}] : n \in 0..MaxTextLen }

\* str.replace(old, new), old one character
RECURSIVE Replace(_, _, _)
Replace(text, old, new) ==
    IF text = <<>> THEN <<>>
    ELSE (IF Head(text) = old THEN new ELSE <<Head(text)>>)
             \o Replace(Tail(text), old, new)

\* send_text: what stands between String(" and ") in the command written
S3270Session_send_text(text) ==
    Replace(Replace(text, "\"", <<"\\", "\"">>), "\\", <<"\\", "\\">>)

\* s3270 reading the characters after String(" : a backslash takes the
\* next character as it is, a quote that is not escaped ends the literal.
\* typed is the text so far; closed says the literal has ended, and rest
\* what followed its end.
RECURSIVE ReadLiteral(_, _)
ReadLiteral(chars, typed) ==
    IF chars = <<>> THEN [typed |-> typed, closed |-> FALSE, rest |-> <<>>]
    ELSE IF Head(chars) = "\"" THEN [typed |-> typed, closed |-> TRUE, rest |-> Tail(chars)]
    ELSE IF Head(chars) = "\\" /\ Len(chars) > 1
    THEN ReadLiteral(Tail(Tail(chars)), Append(typed, chars[2]))
    ELSE IF Head(chars) = "\\"
    THEN [typed |-> typed, closed |-> FALSE, rest |-> chars]
    ELSE ReadLiteral(Tail(chars), Append(typed, Head(chars)))

\* the argument of a String command as s3270 reads it: the characters it
\* types, and whether the literal ends at the quote send_text closes it with
DecodeString(arg) ==
    LET r == ReadLiteral(arg \o <<"\"">>, <<>>)
    IN [typed |-> r.typed, well_formed |-> r.closed /\ r.rest = <<>>]

\* fill_at(row, col, text): the commands written to s3270
S3270Session_fill_at(row, col, text) ==
    << [cmd |-> "MoveCursor", row |-> row, col |-> col],
       [cmd |-> "String", arg |-> S3270Session_send_text(text)] >>

TextInit ==
    /\ FlowIdle
    /\ LoggerIdle
    /\ RunIdle
    /\ AgentIdle
    /\ fn_in \in { [op |-> "fill_at", row |-> 1, col |-> 1, text |-> t] :
                   t \in TypedTexts }
    /\ fn_out = NotCalled
    /\ captured = <<>>
    /\ golden_files = EmptyDict
    /\ screen = "any"
    /\ sent = <<>>

FillAt ==
    /\ fn_in.op = "fill_at"
    /\ ~fn_out.done
    /\ sent' = sent \o S3270Session_fill_at(fn_in.row, fn_in.col, fn_in.text)
    /\ fn_out' = [done |-> TRUE, result |-> [status |-> "ok"]]
    /\ UNCHANGED <<flowvars, loggervars, runvars, agentvars, fn_in, captured,
                   golden_files, screen>>

TextSpec == TextInit /\ [][FillAt]_vars

(* ---------------- properties: recovery and step order ---------------- *)

Range(f) == { f[x] : x \in DOMAIN f }

\* the events ev of activation eid
EventsOf(eid, ev) == { k \in 1..Len(trace) : trace[k].eid = eid /\ trace[k].ev = ev }

\* the execute_step call of activation eid for own step i / remedial step j
CallsOf(eid, ctx, i, j) ==
    { k \in 1..Len(calls) : /\ calls[k].eid = eid /\ calls[k].ctx = ctx
                            /\ calls[k].i = i /\ calls[k].j = j }

Activations == { trace[k].eid : k \in Starts }

\* C1: when a step has failed and the first recovery rule whose trigger is in
\* the fresh screen has run all its remedial steps with success, the flow
\* goes on with the step after the failed one, the failed step has been
\* executed once only, and the transcript holds the failed step's entry,
\* then "Recovery triggered", then the entries of the remedial steps.
C1_RecoverThenAdvance ==
    \A k \in 1..Len(trace) :
        trace[k].ev = "recovered" =>
            LET e     == trace[k]
                rules == Decl(e.flow).recovery
                rule  == rules[e.j]
                fc    == CallsOf(e.eid, "step", e.i, 0)
            IN  /\ Cardinality(fc) = 1
                /\ \A c \in fc :
                      /\ ~calls[c].ok
                      /\ calls[c].after > calls[c].before
                      /\ transcript[calls[c].after + 1].action =
                            <<"Recovery triggered", rule.d["when_ascii_contains"]>>
                      /\ \E s \in Snapshots :
                            /\ transcript[calls[c].after + 1].digest = Trunc16(s.digest)
                            /\ AsciiContains(s.ascii, rule.d["when_ascii_contains"])
                            /\ \A q \in 1..(e.j - 1) :
                                  ~ ( /\ "when_ascii_contains" \in DOMAIN rules[q].d
                                      /\ AsciiContains(s.ascii,
                                            rules[q].d["when_ascii_contains"]) )
                      /\ \A j \in 1..Len(rule.do) :
                            /\ c + j <= Len(calls)
                            /\ calls[c + j].eid = e.eid
                            /\ calls[c + j].ctx = "do"
                            /\ calls[c + j].i = e.i
                            /\ calls[c + j].j = j
                            /\ calls[c + j].step = rule.do[j]
                            /\ calls[c + j].ok
                            /\ calls[c + j].before =
                                  (IF j = 1 THEN calls[c].after + 1
                                   ELSE calls[c + j - 1].after)
                            /\ calls[c + j].after > calls[c + j].before
                /\ \A m \in (k + 1)..Len(trace) :
                      ( /\ trace[m].eid = e.eid
                        /\ trace[m].ev \in {"step_begin", "step_end", "do_begin",
                                            "do_end", "triggered", "recovered"} )
                      => trace[m].i > e.i
                /\ k = Len(trace) =>
                      /\ status = "Running"
                      /\ Top.eid = e.eid
                      /\ Top.pc = "steps"
                      /\ Top.i = e.i + 1

C1_Witness ==
    \E k \in 1..Len(trace) :
        /\ trace[k].ev = "recovered"
        /\ Len(Decl(trace[k].flow).recovery[trace[k].j].do) = 2
        /\ \E m \in (k + 1)..Len(trace) :
              /\ trace[m].ev = "step_end"
              /\ trace[m].eid = trace[k].eid
              /\ trace[m].i = trace[k].i + 1

\* a step failed and the flow has no recovery list, or no rule matched the
\* fresh snapshot, or a remedial step failed
FailPoint(k) ==
    \/ /\ trace[k].ev = "step_end"
       /\ ~trace[k].ok
       /\ ~Decl(trace[k].flow).hasRecovery
    \/ trace[k].ev = "nomatch"
    \/ /\ trace[k].ev = "do_end"
       /\ ~trace[k].ok

\* C2: at such a point execute_flow returns False and nothing of the flow
\* runs afterwards: the flow, and with it every flow importing it, ends
\* Failed.
C2_FailedFlowStops ==
    \A k \in 1..Len(trace) :
        FailPoint(k) =>
            /\ k < Len(trace)
            /\ trace[k + 1].ev = "ret"
            /\ trace[k + 1].eid = trace[k].eid
            /\ ~trace[k + 1].ok
            /\ \A m \in (k + 1)..Len(trace) : trace[m].ev = "ret" /\ ~trace[m].ok
            /\ status = "Failed"
            /\ stack = <<>>
            /\ wait = NoWait

C2_Witness ==
    /\ status = "Failed"
    /\ \E k \in 1..Len(trace) :
          /\ trace[k].ev = "do_end"
          /\ ~trace[k].ok
          /\ trace[k].eid = 1
          /\ trace[k].i < Len(root.steps)

\* C3: in one activation the steps begin in declaration order, each once
\* and none left out; a step begins only when the one before it has ended
\* (its polling loop and its recovery included), and nothing else of the
\* run happens between a step's begin and its end.
C3_StepsInOrder ==
    \A eid \in Activations :
        LET B == EventsOf(eid, "step_begin")
        IN  /\ \A m \in B :
                  /\ trace[m].i = Cardinality({x \in B : x <= m})
                  /\ trace[m].i <= Len(Decl(trace[m].flow).steps)
                  /\ m < Len(trace) =>
                        /\ trace[m + 1].ev = "step_end"
                        /\ trace[m + 1].eid = eid
                        /\ trace[m + 1].i = trace[m].i
                  /\ m = Len(trace) =>
                        /\ wait # NoWait
                        /\ Top.eid = eid
                        /\ Top.pc = "steps"
                        /\ Top.i = trace[m].i
                  /\ trace[m].i > 1 =>
                        \E x \in 1..(m - 1) :
                            /\ trace[x].ev = "step_end"
                            /\ trace[x].eid = eid
                            /\ trace[x].i = trace[m].i - 1
                            /\ \/ trace[x].ok
                               \/ \E y \in (x + 1)..(m - 1) :
                                     /\ trace[y].ev = "recovered"
                                     /\ trace[y].eid = eid
                                     /\ trace[y].i = trace[m].i - 1
                  /\ \A x \in (m + 1)..Len(trace) :
                        ( /\ trace[x].eid = eid
                          /\ trace[x].ev \in {"step_end", "do_begin", "do_end",
                                              "triggered", "recovered", "nomatch"} )
                        => trace[x].i >= trace[m].i
            /\ \A x \in EventsOf(eid, "ret") :
                  trace[x].ok => Cardinality(B) = Len(Decl(trace[x].flow).steps)

C3_Witness ==
    /\ status = "Completed"
    /\ Len(root.steps) = 2
    /\ root.steps[2] = W1
    /\ root.imports # <<>>
    /\ \E k \in 1..Len(trace) :
          /\ trace[k].ev = "recovered"
          /\ trace[k].eid = 1
          /\ trace[k].i = 1

(* ---------------- properties: imports ---------------- *)

StartOf(eid) == CHOOSE k \in Starts : trace[k].eid = eid

\* the activations that import x of activation eid started
ImportStarts(eid, x) ==
    { k \in Starts : trace[k].par = eid /\ trace[k].i = x }

\* import x of activation eid was executed, and had returned, before event m
ImportDoneBefore(eid, x, m) ==
    \E k \in ImportStarts(eid, x) :
        /\ k < m
        /\ trace[k].flow = Decl(trace[StartOf(eid)].flow).imports[x]
        /\ \E r \in (k + 1)..(m - 1) :
              trace[r].ev = "ret" /\ trace[r].eid = trace[k].eid

\* imports start in listed order, each after the one before it has returned
\* (with everything it imports), and a failed import ends the importer at
\* once: it returns False having run no step and no recovery rule
ImportsOrderedAndFatal(eid) ==
    /\ \A k1, k2 \in Starts :
          ( /\ trace[k1].par = eid
            /\ trace[k2].par = eid
            /\ k1 < k2 )
          => /\ trace[k1].i < trace[k2].i
             /\ \E r \in (k1 + 1)..(k2 - 1) :
                   trace[r].ev = "ret" /\ trace[r].eid = trace[k1].eid /\ trace[r].ok
    /\ \A k \in Starts :
          trace[k].par = eid =>
             \A r \in EventsOf(trace[k].eid, "ret") :
                /\ \A x \in (k + 1)..(r - 1) : trace[x].eid # eid
                /\ ~trace[r].ok =>
                      /\ r < Len(trace)
                      /\ trace[r + 1].ev = "ret"
                      /\ trace[r + 1].eid = eid
                      /\ ~trace[r + 1].ok
                      /\ \A x \in 1..Len(trace) :
                            trace[x].eid = eid => trace[x].ev \in {"start", "skip", "ret"}

\* C4: every import of a flow is executed, in listed order and depth-first,
\* before the flow's first own step; a failed import makes the importing
\* flow return Failed at once, with no own step and no recovery rule run.
C4_AllImportsBeforeSteps ==
    \A eid \in Activations :
        /\ \A m \in EventsOf(eid, "step_begin") :
              \A x \in 1..Len(Decl(trace[StartOf(eid)].flow).imports) :
                  ImportDoneBefore(eid, x, m)
        /\ ImportsOrderedAndFatal(eid)

\* What holds of the imports: the same for the imports whose file exists in
\* the flows directory; one whose file does not exist is passed over.
C4_ExistingImportsBeforeSteps ==
    \A eid \in Activations :
        /\ \A m \in EventsOf(eid, "step_begin") :
              \A x \in 1..Len(Decl(trace[StartOf(eid)].flow).imports) :
                  IF Exists(Decl(trace[StartOf(eid)].flow).imports[x])
                  THEN ImportDoneBefore(eid, x, m)
                  ELSE ImportStarts(eid, x) = {}
        /\ ImportsOrderedAndFatal(eid)

(* ---------------- properties: transcript ---------------- *)

IsFill(step) == step.type \in {"fill_at", "fill_by_label"}

EntryTokens(e) == Range(e.action) \cup Range(e.result)
LineTokens(line) == UNION { Range(line[x]) : x \in 1..Len(line) }

\* the entries execute_step call c appended
EntriesOf(c) == (calls[c].before + 1)..calls[c].after

\* the value a fill step types
ValueOf(c) == ResolveValue(StepParams(calls[c].step), env_vars)

\* C5: every execute_step call appends exactly one transcript entry.
C5_OneEntryPerStep ==
    \A c \in 1..Len(calls) : calls[c].after = calls[c].before + 1

SecretFill(c) ==
    /\ IsFill(calls[c].step)
    /\ Get(StepParams(calls[c].step), "secret", FALSE) = TRUE
    /\ ValueOf(c) # ""

\* C6: no transcript entry appended by a fill step with secret=true, and no
\* persisted line of it, holds the value typed, on the success path and on
\* the error path; the value recorded is the placeholder.
C6_SecretNeverLogged ==
    \A c \in 1..Len(calls) :
        SecretFill(c) =>
            \A k \in EntriesOf(c) :
                /\ ValueOf(c) \notin EntryTokens(transcript[k])
                /\ ValueOf(c) \notin LineTokens(save_transcript(transcript)[k])
                /\ Len(transcript[k].action) = 4 =>
                      transcript[k].action[4] = REDACTED

C6_Witness ==
    \E c1, c2 \in 1..Len(calls) :
        /\ SecretFill(c1)
        /\ calls[c1].ok
        /\ SecretFill(c2)
        /\ calls[c2].after = calls[c2].before + 2
        /\ transcript[calls[c2].after].result[1] = "ERROR"

\* the tokens of the model that hold one of the sensitive substrings
SensitiveTokens == {"TSO_PASS", "Password", "mypassword", "secret"}

SensitiveParams(p) ==
    \/ DOMAIN p \cap SensitiveTokens # {}
    \/ \E k \in DOMAIN p \cap {"value", "value_env", "label"} :
          p[k] \in SensitiveTokens

\* C7: a fill step with a parameter whose key or string value holds a
\* sensitive substring has its value recorded as the placeholder, with
\* secret=true or without.
C7_RedactionUnconditional ==
    \A c \in 1..Len(calls) :
        ( /\ IsFill(calls[c].step)
          /\ SensitiveParams(StepParams(calls[c].step))
          /\ ValueOf(c) # "" )
        => \A k \in EntriesOf(c) :
              /\ ValueOf(c) \notin EntryTokens(transcript[k])
              /\ Len(transcript[k].action) = 4 =>
                    transcript[k].action[4] = REDACTED

(* ---------------- properties: errors ---------------- *)

\* C9: no error raised while a flow runs leaves execute_flow as an
\* exception.
C9_NoExceptionLeavesFlow == status # "Raised"

\* C10: a golden:assert step that failed on a digest mismatch triggers no
\* recovery rule, and the flow ends Failed.
C10_GoldenMismatchNotRecovered ==
    \A c \in 1..Len(calls) :
        ( /\ calls[c].ctx = "step"
          /\ calls[c].step.type = "golden:assert"
          /\ ~calls[c].ok
          /\ transcript[calls[c].after].result = <<"FAILED">> )
        => /\ \A m \in 1..Len(trace) :
                 ( /\ trace[m].eid = calls[c].eid
                   /\ trace[m].i = calls[c].i )
                 => trace[m].ev \notin {"triggered", "recovered", "do_begin"}
           /\ status # "Completed"

(* ---------------- properties: the logger's redaction ---------------- *)

\* every entry of p, at any depth, whose key or string value holds a
\* sensitive word is the placeholder in out
RECURSIVE AllRedacted(_, _)
AllRedacted(p, out) ==
    /\ DOMAIN out = DOMAIN p
    /\ \A k \in DOMAIN p :
          IF \/ AnyIn(redact_keys, k)
             \/ p[k].t = "str" /\ AnyIn(redact_keys, p[k].s)
          THEN out[k] = StrV(RedactedChars)
          ELSE p[k].t = "dict" =>
                  /\ out[k].t = "dict"
                  /\ AllRedacted(p[k].d, out[k].d)

\* C8: _redact_params replaces by the placeholder every entry whose key or
\* string value holds a sensitive word, whatever the key and at any depth.
C8_RedactionTotal ==
    \A n \in 1..Len(jsonl) : AllRedacted(logged[n], jsonl[n].params_redacted)

(* ---------------- properties: failure artifacts ---------------- *)

AssertKinds == {"assert_screen", "assert_not_screen"}

\* the call read a screen and the screen did not satisfy the assertion
AssertFailed(c) ==
    /\ c.step.type \in AssertKinds
    /\ ~c.ok
    /\ transcript[c.after].result[1] = "FAILED"

\* the failed assertions, in the order of their calls
FailedAsserts == SelectSeq(calls, AssertFailed)

\* the screen an assertion read: the one whose digest its entry carries
ScreenOf(c) ==
    CHOOSE s \in Snapshots : transcript[c.after].digest = Trunc16(s.digest)

C12_FailedRunHasTranscript ==
    run_result = "False" => logfiles # <<>>

\* the flow ended Failed: a step failed and recovery did not succeed
FlowEndedFailed == status = "Failed" /\ run_result # "none"

\* C13: when the flow has ended Failed, a failure-screen dump has been
\* written together with the transcript, whatever step failed.
C13_FailedFlowHasScreenDump ==
    FlowEndedFailed => (logfiles # <<>> /\ fails # <<>>)

(* ---------------- properties: malformed steps ---------------- *)

\* the required parameters of the step kinds that have any
Required(t) ==
    CASE t = "fill_at"       -> {"row", "col"}
      [] t = "fill_by_label" -> {"label"}
      [] t = "golden:save"   -> {"name"}
      [] t = "golden:assert" -> {"name"}
      [] OTHER               -> {}

MissingRequired(step) == Required(step.type) \ DOMAIN StepParams(step) # {}

KnownKinds ==
    {"wait_ready", "wait_change", "press", "fill_at", "fill_by_label",
     "assert_screen", "assert_not_screen", "snapshot", "golden:save",
     "golden:assert", "sleep_ms"}

\* an execute_step call returns in this step
Returns == Len(calls') = Len(calls) + 1

Returned == calls'[Len(calls')]

C14_Step ==
    (Returns /\ MissingRequired(Returned.step)) =>
        /\ ~Returned.ok
        /\ driver' = driver
        /\ Len(transcript') >= Len(transcript) + 1
        /\ transcript'[Len(transcript) + 1].result[1] = "ERROR"
        /\ (Top.pc = "steps" /\ Decl(Top.flow).hasRecovery) =>
              /\ Len(stack') = Len(stack)
              /\ stack'[Len(stack')].pc = "recover"
              /\ stack'[Len(stack')].i = Top.i
        /\ (Top.pc = "steps" /\ ~Decl(Top.flow).hasRecovery) =>
              status' = "Failed"

\* C14: a step of a known kind that lacks a required parameter fails
\* without any request sent to the driver, and its failure is handled as any
\* step failure is: the flow's recovery rules are evaluated if it has any,
\* else the flow fails.
C14_MissingParamFailsThroughRecovery == [][C14_Step]_vars

\* a step lacking a required parameter has failed and the recovery that
\* followed has succeeded
C14_Witness ==
    \E c \in 1..Len(calls) :
        /\ MissingRequired(calls[c].step)
        /\ calls[c].ctx = "step"
        /\ ~calls[c].ok
        /\ \E k \in EventsOf(calls[c].eid, "recovered") : trace[k].i = calls[c].i

C15_Step ==
    (Returns /\ Returned.step.type \notin KnownKinds) =>
        /\ Returned.ok
        /\ transcript' = Append(transcript,
              LogEntry(<<"unknown step", Returned.step.type>>, <<"SKIPPED">>,
                       FALSE, cur))
        /\ UNCHANGED <<driver, cur, goldens, fails, status, env_vars,
                       save_goldens_flag, wait>>
        /\ Len(stack') = Len(stack)
        /\ Top.pc = "steps" =>
              stack' = SetTop([Top EXCEPT !.i = @ + 1])

\* C15: a step of an unknown kind returns success, appends one entry that
\* records it as skipped, sends nothing to the driver and changes nothing
\* else; the flow goes on with the next step.
C15_UnknownStepSkipped == [][C15_Step]_vars

\* an unknown step has been skipped and the step after it has been executed
C15_Witness ==
    \E c, d \in 1..Len(calls) :
        /\ calls[c].step.type \notin KnownKinds
        /\ calls[c].ctx = "step"
        /\ calls[c].ok
        /\ calls[d].ctx = "step"
        /\ calls[d].eid = calls[c].eid
        /\ calls[d].i = calls[c].i + 1

(* ---------------- properties: match_screen ---------------- *)

PredicateKeys == {"ascii_contains", "ascii_regex"}

\* a list of sub-rules one of which holds a content predicate
ListHasPredicate(d, k) ==
    /\ k \in DOMAIN d
    /\ \E x \in 1..Len(d[k]) : DOMAIN d[k][x] \cap PredicateKeys # {}

\* the rule holds a content predicate in a place match_screen reads
HasPredicate(id) ==
    \/ DOMAIN id \cap PredicateKeys # {}
    \/ ListHasPredicate(id, "any")
    \/ /\ "match" \in DOMAIN id
       /\ \/ ListHasPredicate(id["match"], "any")
          \/ ListHasPredicate(id["match"], "all")

\* C16: match_screen returns (False, None) for every snapshot when the rule
\* holds no content predicate: only dimension or stability constraints, an
\* empty 'any' or 'all' list, or sub-rules without a predicate.
C16_NoPredicateNeverMatches ==
    (fn_out.done /\ ~HasPredicate(fn_in.screen_id)) => fn_out.result = NoMatch

\* a rule with constraints the snapshot satisfies and an empty 'all' list
C16_Witness ==
    /\ fn_out.done
    /\ ~HasPredicate(fn_in.screen_id)
    /\ "match" \in DOMAIN fn_in.screen_id
    /\ "all" \in DOMAIN fn_in.screen_id["match"]
    /\ fn_in.screen_id["match"]["all"] = <<>>
    /\ "rows" \in DOMAIN fn_in.screen_id["match"]
    /\ DimsOk(fn_in.snapshot, fn_in.screen_id)
    /\ "stability" \in DOMAIN fn_in.screen_id
    /\ "min_chars" \in DOMAIN fn_in.screen_id["stability"]
    /\ StabilityOk(fn_in.snapshot, fn_in.screen_id)

\* the snapshot's dimensions differ from the rule's rows or cols
DimMismatch(sn, id) ==
    /\ "match" \in DOMAIN id
    /\ \E k \in {"rows", "cols"} \cap DOMAIN id["match"] :
          Get(sn, k, 0) # id["match"][k]

\* the snapshot holds fewer characters than the rule's min_chars
TooFewChars(sn, id) ==
    /\ "stability" \in DOMAIN id
    /\ "min_chars" \in DOMAIN id["stability"]
    /\ CharCount(Get(sn, "ascii", "")) < id["stability"]["min_chars"]

C18_NormalizeIdempotent ==
    fn_out.done => fn_out.again = fn_out.result

\* a text with a blank first line and trailing whitespace, which
\* normalization changes
C18_Witness ==
    /\ fn_out.done
    /\ Len(fn_in.text) = MaxLen
    /\ fn_in.text[1] = "\n"
    /\ fn_in.text[Len(fn_in.text)] = "\t"
    /\ fn_in.text[Len(fn_in.text) - 1] = " "
    /\ fn_out.result # fn_in.text
    /\ fn_out.result # <<>>

\* C19: the digest of a captured snapshot is compute_digest of its text, and
\* two captured snapshots have equal digests iff their normalized texts are
\* equal.
C19_SnapshotDigestIsFingerprint ==
    /\ \A k \in 1..Len(captured) :
          captured[k].digest = compute_digest_text(captured[k].ascii)
    /\ \A j, k \in 1..Len(captured) :
          (captured[j].digest = captured[k].digest)
          <=> (normalize_screen(captured[j].ascii)
               = normalize_screen(captured[k].ascii))

\* C20: after a golden is saved from a captured snapshot S, asserting it
\* against a snapshot whose normalized text equals that of S returns
\* (True, "Digests match"), and against one whose normalized text differs
\* returns False with a line-level diff.
C20_GoldenRoundTrip ==
    fn_out.done =>
        IF normalize_screen(captured[fn_out.against].ascii)
           = normalize_screen(golden_files["n"].ascii)
        THEN /\ fn_out.result.matches
             /\ fn_out.result.msg = <<"Digests match">>
        ELSE /\ ~fn_out.result.matches
             /\ fn_out.result.msg = <<"diff">>
             /\ ~fn_out.result.diff_empty

\* C21: assert_golden on a name with no golden stored (either of its two
\* files missing) returns (False, "Golden '<name>' not found") and does not
\* raise; the golden store is left as it was.
C21_MissingGoldenNotFound ==
    /\ golden_files = fn_in.files
    /\ (fn_out.done /\ ~GoldenStored(fn_in.name, fn_in.files)) =>
          /\ ~fn_out.result.matches
          /\ fn_out.result.msg = <<"Golden", fn_in.name, "not found">>

\* a name of which only the text file is stored, beside a complete golden
\* under the other name
C21_Witness ==
    /\ fn_out.done
    /\ fn_in.name = "ready"
    /\ fn_in.name \in DOMAIN fn_in.files
    /\ DOMAIN fn_in.files["ready"] = {"ascii"}
    /\ GoldenStored("n", fn_in.files)
    /\ ~fn_out.result.matches

\* the characters of a data line: its gaps and its markers
RECURSIVE LineLength(_)
LineLength(gaps) ==
    IF gaps = <<>> THEN 0
    ELSE Head(gaps) + MarkerLen + LineLength(Tail(gaps))

\* a dump of a rows x cols screen: at most rows data lines, none of them
\* longer than cols characters
IsScreenDump(lines, rows, cols) ==
    /\ Cardinality({ i \in 1..Len(lines) : lines[i].data }) <= rows
    /\ \A i \in 1..Len(lines) : LineLength(lines[i].gaps) <= cols

\* the row-major position of a field's start, from 1
FieldOffset(f, cols) == (f.row - 1) * cols + f.col

\* C22: for a buffer dump with N field-start markers parse_readbuffer_ascii
\* returns N fields in scan order, each of non-negative length, and the span
\* start+length of a field does not reach past the start of the next one.
C22_FieldsExhaustive ==
    (fn_out.done /\ IsScreenDump(fn_in.lines, fn_in.rows, fn_in.cols)) =>
        LET fields == fn_out.result
        IN /\ Len(fields) = MarkerCount(fn_in.lines)
           /\ \A i \in 1..Len(fields) : fields[i].len >= 0
           /\ \A i \in 1..(Len(fields) - 1) :
                /\ FieldOffset(fields[i], fn_in.cols)
                     < FieldOffset(fields[i + 1], fn_in.cols)
                /\ FieldOffset(fields[i], fn_in.cols) + fields[i].len
                     <= FieldOffset(fields[i + 1], fn_in.cols)

\* C23: the length of a field is the row-major distance from its start to
\* the start of the next field, on the same row as on a later one, and the
\* length of the last field is rows*cols minus the offset of its start.
C23_LengthIsRowMajorDistance ==
    (fn_out.done /\ IsScreenDump(fn_in.lines, fn_in.rows, fn_in.cols)) =>
        LET fields == fn_out.result
        IN /\ \A i \in 1..(Len(fields) - 1) :
                fields[i].len = FieldOffset(fields[i + 1], fn_in.cols)
                                - FieldOffset(fields[i], fn_in.cols)
           /\ Len(fields) > 0 =>
                fields[Len(fields)].len
                  = fn_in.rows * fn_in.cols
                    - (FieldOffset(fields[Len(fields)], fn_in.cols) - 1)

(* ---------------- properties: labels ---------------- *)

\* the rows of the screen as the snapshot has them
ScreenRows == SplitLines(SnapshotAscii(fn_in.response))

C30_BridgeTypesAtLabelPosition ==
    (fn_in.op = "label" /\ fn_out.result.field # <<>>
       /\ fn_out.result.typed # <<>>) =>
        LET field == fn_out.result.field[1]
            typed == fn_out.result.typed[1]
        IN /\ typed.found <=> field.found
           /\ typed.found =>
                \A k \in 1..Len(typed.sent) :
                   /\ typed.sent[k].row = field.row
                   /\ typed.sent[k].col = field.col

(* ---------------- properties: waiting ---------------- *)

\* a wait_change call that has returned True or False
ChangeReturned ==
    /\ wait # NoWait
    /\ wait.type = "wait_change"
    /\ wait.result \in {"True", "False"}

\* C25: wait_change returns True only if a snapshot taken during the wait has
\* a digest other than that of the screen shown when wait_change was called,
\* whether or not a snapshot had been taken before; with no such snapshot it
\* returns False.
C25_ChangeMeansNewScreen ==
    ChangeReturned =>
        (wait.result = "True" =>
            \E d \in wait.seen : d # SnapshotOf(wait.at_call).digest)

\* C26: a wait_ready, wait_change or sleep_ms step that has been called
\* returns.
C26_TimedStepsReturn ==
    (wait # NoWait /\ wait.result = "running")
        ~> (wait # NoWait /\ wait.result # "running")

\* a wait_change that polled, saw no change and ran into its timeout, and a
\* wait_ready likewise
C26_Witness ==
    /\ wait # NoWait
    /\ wait.type \in {"wait_change", "wait_ready"}
    /\ wait.result = "False"
    /\ wait.timeout = MaxTimeout
    /\ wait.elapsed >= wait.timeout
    /\ wait.type = "wait_change" => wait.seen # {}

(* ---------------- properties: the bridge ---------------- *)

\* the hosts that are local-loopback addresses
LoopbackHosts == { LocalHost1, LocalHost2 }

\* C27: no sequence of connects, raw actions and session resets makes the
\* bridge write to s3270 a Connect to a host that is not a loopback address.
C27_ConnectOnlyLoopback ==
    \A k \in 1..Len(sent) :
       \A h \in Hosts \ LoopbackHosts : sent[k] # Call(Str_Connect, h)

\* the key names press is to accept
PressKeys ==
    {Str_Enter, Str_Clear} \cup { PFKey(i) : i \in 1..24 }
                           \cup { PAKey(i) : i \in 1..3 }

\* the commands that press the key: PF(1) for PF1, Enter for Enter, also
\* written PF1() and Enter()
KeyCommands(key) ==
    { key, Call(key, <<>>), Call(SubSeq(key, 1, 2), SubSeq(key, 3, Len(key))) }

\* C28: press accepts the key names Enter, Clear, PF1..PF24, PA1..PA3 and
\* sends the key's command; any other name is answered with an error and
\* nothing is sent.
C28_PressAcceptsExactlyTheKeys ==
    (fn_out.done /\ fn_in.op \in {"POST /press", "S3270Session.press"}) =>
        IF fn_in.key \in PressKeys
        THEN /\ fn_out.result.status \in {"200", "ok"}
             /\ Len(fn_out.result.commands) = 1
             /\ fn_out.result.commands[1] \in KeyCommands(fn_in.key)
        ELSE /\ fn_out.result.status \in {"400", "ValueError"}
             /\ fn_out.result.commands = <<>>

(* ---------------- properties: the order of the content predicates ---------------- *)

\* a sub-rule matches when one of its predicates is found in the text
SubRuleMatches(rule, ascii) == ContainsHit(rule, ascii) \/ RegexHit(rule, ascii)

\* the list under key of d has a sub-rule that matches
SomeMatches(d, key, ascii) ==
    /\ key \in DOMAIN d
    /\ \E k \in 1..Len(d[key]) : SubRuleMatches(d[key][k], ascii)

\* the result is the description of the first sub-rule of rules that matches
IsFirstMatchOf(rule, rules, ascii) ==
    \E k \in 1..Len(rules) :
       /\ SubRuleMatches(rules[k], ascii)
       /\ \A j \in 1..(k - 1) : ~SubRuleMatches(rules[j], ascii)
       /\ rule = (IF ContainsHit(rules[k], ascii) THEN ContainsDesc(rules[k])
                  ELSE RegexDesc(rules[k]))

\* C29: with the constraints satisfied, match_screen tries the direct
\* predicates, match.any, match.all and the top-level any in this order and
\* returns the result of the first that matches: the description of the
\* first matching sub-rule for an any list, the descriptions joined by AND
\* for an all list of which every sub-rule matches; a match.any that fails
\* does not keep match.all or the top-level any from matching.
C29_PredicateOrder ==
    ( /\ fn_out.done
      /\ ~DimMismatch(fn_in.snapshot, fn_in.screen_id)
      /\ ~TooFewChars(fn_in.snapshot, fn_in.screen_id) )
    => LET id == fn_in.screen_id
           ascii == Get(fn_in.snapshot, "ascii", "")
           m == Get(id, "match", EmptyDict)
           res == fn_out.result
           direct == SubRuleMatches(id, ascii)
           match_any == SomeMatches(m, "any", ascii)
           match_all == /\ "all" \in DOMAIN m
                        /\ m["all"] # <<>>
                        /\ \A k \in 1..Len(m["all"]) :
                              SubRuleMatches(m["all"][k], ascii)
           top_any == SomeMatches(id, "any", ascii)
       IN  /\ res.matched <=> (direct \/ match_any \/ match_all \/ top_any)
           /\ direct => res.rule = (IF ContainsHit(id, ascii)
                                    THEN ContainsDesc(id) ELSE RegexDesc(id))
           /\ (~direct /\ match_any) =>
                 IsFirstMatchOf(res.rule, m["any"], ascii)
           /\ (~direct /\ ~match_any /\ match_all) =>
                 res.rule = JoinAnd(MatchedRules(m["all"], ascii))
           /\ (~direct /\ ~match_any /\ ~match_all /\ top_any) =>
                 IsFirstMatchOf(res.rule, id["any"], ascii)

\* a match.any whose two sub-rules both fail, followed by a match.all that
\* matches
C29_Witness ==
    /\ fn_out.done
    /\ ~SubRuleMatches(fn_in.screen_id, Get(fn_in.snapshot, "ascii", ""))
    /\ "match" \in DOMAIN fn_in.screen_id
    /\ {"any", "all"} \subseteq DOMAIN fn_in.screen_id["match"]
    /\ "any" \notin DOMAIN fn_in.screen_id
    /\ Len(fn_in.screen_id["match"]["any"]) = 2
    /\ \A k \in 1..2 :
          /\ DOMAIN fn_in.screen_id["match"]["any"][k]
                \subseteq {"ascii_contains", "ascii_regex"}
          /\ ~SubRuleMatches(fn_in.screen_id["match"]["any"][k],
                             Get(fn_in.snapshot, "ascii", ""))
    /\ fn_out.result.matched
    /\ fn_out.result.rule = <<"ascii_contains", "LOGON">>

(* ---------------- properties: the fill_by_label step ---------------- *)

\* the label is on a line of the screen the snapshot shows
LabelOnScreen ==
    LinesWith(fn_in.label, SplitLines(SnapshotAscii(fn_in.response))) # {}

\* C31: a fill_by_label step reports success only if the label was found on
\* the screen and the text was typed; with the label on no line of the
\* screen the step fails and nothing is sent to the terminal.
C31_FillByLabelNeedsLabel ==
    (fn_in.op = "fill_by_label" /\ fn_out.done) =>
        /\ fn_out.result.success =>
              /\ LabelOnScreen
              /\ \E k \in 1..Len(sent) : sent[k].cmd = "String"
        /\ ~LabelOnScreen => (~fn_out.result.success /\ sent = <<>>)

(* ---------------- properties: run and the session ---------------- *)

\* the disconnect requests the driver has received
Disconnects == { k \in 1..Len(driver) : driver[k] = <<"POST /disconnect">> }

\* C32: a run that attempted to connect has called disconnect exactly once
\* by the time it returns or raises, whichever way it ends; before that it
\* has not called it.
C32_DisconnectExactlyOnce ==
    /\ run_result # "none" => Cardinality(Disconnects) = 1
    /\ run_result = "none" => Disconnects = {}

\* connect was refused, run returned False and disconnect was called
C32_Witness ==
    /\ status = "NoSession"
    /\ run_result = "False"
    /\ logfiles = <<>>
    /\ driver = << <<"POST /disconnect">> >>

(* ---------------- properties: imports that cannot be loaded ---------------- *)

\* an import the activation eid declares names no file of the flows directory
HasMissingImport(eid) ==
    \E x \in 1..Len(Decl(trace[StartOf(eid)].flow).imports) :
        ~Exists(Decl(trace[StartOf(eid)].flow).imports[x])

\* C33: a flow one of whose imports cannot be loaded runs no step of its own
\* and does not complete: it ends as a failure before any step.
C33_MissingImportFailsFlow ==
    \A eid \in Activations :
        HasMissingImport(eid) =>
            /\ EventsOf(eid, "step_begin") = {}
            /\ \A r \in EventsOf(eid, "ret") : ~trace[r].ok

(* ---------------- properties: sleep_ms ---------------- *)

\* the milliseconds a sleep_ms step declares: the bare integer, the ms of
\* the mapping, 1000 when neither is given
DeclaredMs(step) ==
    IF ~step.isdict THEN step.n ELSE Get(step.d, "ms", "1000")

\* C36: a sleep_ms step sleeps the milliseconds it declares, written as a
\* bare integer or as a mapping with ms; 1000 applies only when no value is
\* given. The entry the step logs names the milliseconds it slept.
C36_SleepsDeclaredMs ==
    \A c \in 1..Len(calls) :
        (calls[c].step.type = "sleep_ms" /\ calls[c].after > calls[c].before) =>
            transcript[calls[c].after].action
                = <<"sleep", DeclaredMs(calls[c].step)>>

(* ---------------- properties: the replay harness ---------------- *)

\* C37: replay_transcript returns success exactly when the difference list
\* is empty after it.
C37_SuccessIffNoDifference ==
    (fn_in.op = "replay" /\ fn_out.done /\ fn_out.result.returns # "raise") =>
        (fn_out.result.returns = "True" <=> fn_out.result.differences = <<>>)

(* ---------------- properties: the command queue ---------------- *)

\* C38: the monitor takes the commands in the order they were submitted,
\* each at most once, and writes one result file for each command it takes.
C38_InOrderOnceWithResult ==
    /\ \A i, j \in 1..Len(monitor_log) :
          i < j => monitor_log[i].id < monitor_log[j].id
    /\ \A i \in 1..Len(monitor_log) : monitor_log[i].wrote

\* C39: a result that a wait returns was written for the command the
\* controller sent before that wait.
C39_ResultOfOwnCommand ==
    \A k \in 1..Len(controller.returned) :
        ~controller.returned[k].timeout =>
            controller.returned[k].result.id = controller.returned[k].id

(* ---------------- properties: send_text ---------------- *)

\* C40: the argument of the String command send_text writes reads back as
\* the text it was given: the literal ends at its closing quote and the
\* characters typed are those of the text.
C40_StringDecodesToText ==
    (fn_in.op = "fill_at" /\ fn_out.done) =>
        \A k \in 1..Len(sent) :
            sent[k].cmd = "String" =>
                /\ DecodeString(sent[k].arg).well_formed
                /\ DecodeString(sent[k].arg).typed = fn_in.text

(* ---------------- properties: one recovery per failure ---------------- *)

\* the rule has a trigger and the text holds it
Triggers(rule, ascii) ==
    /\ "when_ascii_contains" \in DOMAIN rule.d
    /\ AsciiContains(ascii, rule.d["when_ascii_contains"])

\* the text of the snapshot with that digest
AsciiOf(digest) == (CHOOSE sn \in Snapshots : sn.digest = digest).ascii

\* the recovery rules triggered for own step i of activation eid
TriggeredFor(eid, i) ==
    { k \in EventsOf(eid, "triggered") : trace[k].i = i }

\* at most one rule per failed step; a failed remedial step is followed at
\* once by the flow returning False; no more triggered rules than steps
OneRecoveryPerFailure ==
    /\ \A eid \in Activations :
          /\ \A i \in 1..Len(Decl(trace[StartOf(eid)].flow).steps) :
                Cardinality(TriggeredFor(eid, i)) <= 1
          /\ Cardinality(EventsOf(eid, "triggered"))
                <= Len(Decl(trace[StartOf(eid)].flow).steps)
    /\ \A x \in 1..Len(trace) :
          (trace[x].ev = "do_end" /\ ~trace[x].ok) =>
              /\ x < Len(trace)
              /\ trace[x + 1].ev = "ret"
              /\ trace[x + 1].eid = trace[x].eid
              /\ ~trace[x + 1].ok
              /\ \A y \in (x + 1)..Len(trace) :
                    trace[y].eid = trace[x].eid => trace[y].ev = "ret"

\* the rule handle_recovery triggers is the first whose trigger is in the
\* snapshot it has just taken, and it triggers none only if none matches
C34_Step ==
    /\ OneRecoveryPerFailure'
    /\ \A k \in (Len(trace) + 1)..Len(trace') :
          LET rules == Decl(trace'[k].flow).recovery
          IN /\ trace'[k].ev = "triggered" =>
                   /\ Triggers(rules[trace'[k].j], AsciiOf(cur'))
                   /\ \A m \in 1..(trace'[k].j - 1) :
                         ~Triggers(rules[m], AsciiOf(cur'))
             /\ trace'[k].ev = "nomatch" =>
                   \A m \in 1..Len(rules) : ~Triggers(rules[m], AsciiOf(cur'))

\* C34: on a step failure at most one recovery rule is executed, the first
\* in list order whose trigger is in the fresh snapshot; a failed remedial
\* step ends the flow Failed with no recovery evaluated for it; a flow
\* executes no more recoveries than it has steps.
C34_OneRecoveryFirstMatch == [][C34_Step]_vars

\* a flow with two rules of the same trigger recovered by the first and
\* completed
C34_Witness ==
    /\ status = "Completed"
    /\ \E k \in 1..Len(trace) :
          /\ trace[k].ev = "triggered"
          /\ trace[k].j = 1
          /\ Len(Decl(trace[k].flow).recovery) = 2
          /\ \A m \in 1..2 :
                Triggers(Decl(trace[k].flow).recovery[m], "LOGON")

(* ---------------- properties: every flow ends ---------------- *)

\* the bridge failed while handle_recovery read the screen
BridgeFailedInRecovery ==
    /\ status = "Raised"
    /\ \E k \in 1..Len(trace) : trace[k].ev = "raise"

\* C35: every execution of a flow ends Completed or Failed, whatever the
\* flows import, each step terminating and the bridge answering when
\* handle_recovery reads the screen.
C35_FlowEnds == <>(status \in {"Completed", "Failed"} \/ BridgeFailedInRecovery)

====
